---- MODULE Spec2Model ----
(***************************************************************************)
(* The OAuth2 token ledger of zenstack-mcp-auth: PasswordAuthProvider      *)
(* (login, code exchange, refresh, verification, revocation) and the       *)
(* bearer gate of AuthMiddleware, over the three Prisma tables             *)
(* authorizationCode, accessToken and refreshToken; and the session table  *)
(* of index.ts (activeConnections) behind the routes GET /sse, POST        *)
(* /message and GET /health; and the client store DatabaseClientsStore     *)
(* (a cache over the table oAuthClient).                                   *)
(*                                                                         *)
(* Granularity.  Node runs one callback at a time, and every `await` of a  *)
(* store operation is a suspension point.  One action of the model is one  *)
(* store operation taking effect together with the synchronous code that   *)
(* follows it up to the next await (checks, Date.now(), token generation). *)
(* The call itself (synchronous up to its first await, no shared state     *)
(* touched) is folded into the first store read.                           *)
(*                                                                         *)
(* Observation.  `last` records the step just taken when that step decides *)
(* something a caller can see: the arguments of a call with the verdict of *)
(* its checks, or the outcome of a call that ended.  Observed clears it    *)
(* before the next step, so a state with a record is exactly the state the *)
(* recorded step produced, and the tables in it are the tables that step   *)
(* left.  Observed touches no program variable: every interleaving of the  *)
(* program's own steps is still there.                                     *)
(*                                                                         *)
(* Store semantics.  findUnique returns the row or null; create inserts a  *)
(* row; delete removes the row and rejects (Prisma P2025) when no row has  *)
(* the key.                                                                *)
(*                                                                         *)
(* Two specifications.  Spec is the ledger under concurrent calls of the   *)
(* provider and the gate; the session table is idle in it.  SessionSpec is *)
(* the three routes over a ledger that holds one issued token pair; the    *)
(* provider's other operations are idle in it.  A route's request is a     *)
(* step of its own there, so that the connection can close while the gate  *)
(* awaits the store.  ClientSpec is the client store from the construction *)
(* of the provider on: the initial load, registrations and their writes,   *)
(* and lookups.  LoginSpec is the route POST /auth/login of                *)
(* AuthMiddleware over the provider's handleLogin.  IdentitySpec is the    *)
(* routes of index.ts over a ledger with the tokens of two users.          *)
(* RegistrySpec is handleLogin in a process whose client table holds one   *)
(* client.                                                                 *)
(***************************************************************************)
EXTENDS Integers, Naturals, Sequences, FiniteSets, TLC

(* ------------------------------ bounds -------------------------------- *)
\* concurrent requests being served
NumProcs == 2
\* values crypto.randomBytes is asked for in one run
MaxTok == 7
\* clock advances in one run
MaxTicks == 1
\* successful logins (authorization codes issued) in one run
MaxCodes == 1
\* requests served in one run
MaxCalls == 4
\* HTTP connections accepted by the routes in one run
MaxConns == 3
\* registerClient calls in one run
MaxRegs == 2

(* --------------------------- program constants ------------------------ *)
\* The clock counts seconds: Date.now() and every expiresAt are milliseconds in
\* the code, all offsets are whole seconds (600000 ms, 3600 * 1000 ms,
\* 86400 * 30 * 1000 ms), and 30 days of milliseconds exceed TLC's integers.
CodeTtl == 600
ExpiresIn == 3600
AccessTtl == ExpiresIn
RefreshTtl == 86400 * 30

(* ------------------------------ inputs -------------------------------- *)
Procs == 1..NumProcs
Clients == {"c1", "c2"}
\* JS undefined for an optional string argument
Undefined == "<undefined>"
\* the empty string, falsy like undefined
EmptyStr == ""
Verifiers == {"v1", "v2"}
VerifierArgs == {Undefined, EmptyStr} \cup Verifiers
RedirectUris == {"https://app.example/cb", "https://evil.example/cb"}
RedirectArgs == {Undefined, EmptyStr} \cup RedirectUris
LoginRedirects == {"https://app.example/cb"}
LoginScopes == {<<"read">>}
\* optional scopes argument: not given, or a (possibly empty) list
ScopeArgs == {[given |-> FALSE, list |-> <<>>]}
             \cup {[given |-> TRUE, list |-> s] : s \in {<<>>, <<"read", "write">>}}
Emails == {"alex@zenstack.dev", "sarah@stripe.com", "nobody@example.com"}
Passwords == {"password123", "wrong"}
\* a token value no call ever generated
JunkTok == MaxTok + 1
\* the token value of a header "Bearer " with nothing after it
EmptyTok == 0
Conns == 1..MaxConns
\* no sessionId: transport not created yet, or the query parameter absent
NoSession == 0
\* a sessionId no transport ever had
JunkSession == MaxConns + 1

\* crypto.createHash('sha256').update(v).digest('base64url') on the inputs used
Sha256B64Url(v) ==
    CASE v = "v1" -> "sha256:v1"
      [] v = "v2" -> "sha256:v2"
      [] OTHER -> "sha256:"

LoginChallenges == {Sha256B64Url("v1")}

\* bcrypt.hashSync(pw, 12) / bcrypt.compare(pw, hash)
BcryptHash(pw) == <<"bcrypt", pw>>
\* a comparison that accepts every password
BcryptCompareAny(pw, hash) == TRUE

BcryptCompare(pw, hash) == BcryptHash(pw) = hash

\* the seeded user table, by email
UserTable ==
    [e \in {"alex@zenstack.dev", "sarah@stripe.com"} |->
        [id |-> IF e = "alex@zenstack.dev" THEN 1 ELSE 2,
         password |-> BcryptHash("password123")]]

\* a JS value used as a condition
Truthy(s) == s # Undefined /\ s # EmptyStr

\* a || b for an optional string
OrElse(a, b) == IF Truthy(a) THEN a ELSE b

\* a JS number: parseInt gives an integer or NaN
Number(n) == [type |-> "number", nan |-> FALSE, value |-> n]
NaN == [type |-> "number", nan |-> TRUE, value |-> 0]

\* parseInt for the user id strings submitted: the leading digits, NaN
\* when there are none
ParseInt(s) == IF s \in {"1", "1x"} THEN Number(1) ELSE NaN

VARIABLES
    codes,          \* table authorizationCode: code -> row
    accessTokens,   \* table accessToken: token -> row
    refreshTokens,  \* table refreshToken: token -> row
    now,            \* Date.now()
    ticks,          \* clock advances so far
    nextTok,        \* next value of crypto.randomBytes
    calls,          \* requests started so far
    pc,             \* per request: position in its handler
    call,           \* per request: the handler's live arguments and locals
    last,           \* the record of the step just taken, if it left one
    issued,         \* history: every row ever created, with the grant it came from
    consumed,       \* history: codes redeemed, refresh tokens rotated, tokens revoked
    activeConnections,  \* Map of index.ts: sessionId -> transport
    conns,          \* per HTTP connection: its request, its handler's position,
                    \* whether it is open and whether a close listener is on it
    nextSession,    \* next sessionId a new SSEServerTransport gets (randomUUID)
    handed,         \* history: the messages handed to transports, in order
    shutdown,       \* the process: "running", "draining" after SIGINT, "exited"
    clients,        \* DatabaseClientsStore.clients: client_id -> client record
    initialized,    \* DatabaseClientsStore.initialized
    oAuthClient,    \* table oAuthClient: client_id -> row
    load,           \* initializeClients: its position, and the rows findMany read
    writes,         \* the persistClientToDatabase calls in flight
    registered,     \* history: client_id -> the latest registration of it
    nextReg         \* registerClient calls so far, plus one

sessionVars == <<activeConnections, conns, nextSession, handed, shutdown>>

clientVars == <<clients, initialized, oAuthClient, load, writes, registered, nextReg>>

vars == <<codes, accessTokens, refreshTokens, now, ticks, nextTok, calls, pc, call,
          last, issued, consumed, activeConnections, conns, nextSession, handed,
          shutdown, clients, initialized, oAuthClient, load, writes, registered,
          nextReg>>

Idle == [op |-> "idle"]
NoEvent == [op |-> "none", step |-> "none", phase |-> "none"]

\* no record is waiting to be observed
Quiet == last = NoEvent

\* A new request takes the lowest free slot: the slots are interchangeable, so
\* this loses no interleaving of up to NumProcs requests.
Free(p) == Quiet /\ pc[p] = "idle" /\ \A q \in Procs : q < p => pc[q] # "idle"

\* a request starts in slot p
Start(p) == Free(p) /\ calls < MaxCalls /\ calls' = calls + 1

\* request p is at position s
At(p, s) == Quiet /\ pc[p] = s

\* a delete that forgets its where clause
WithoutAny(table, k) == <<>>

\* the table without the row of key k
Without(table, k) == [x \in DOMAIN table \ {k} |-> table[x]]
\* the table with row r under key k
With(table, k, r) == [x \in DOMAIN table \cup {k} |-> IF x = k THEN r ELSE table[x]]

IssuedOf(kind) == {m.tok : m \in {i \in issued : i.kind = kind}}
ConsumedBy(how) == {m.tok : m \in {i \in consumed : i.how = how}}

\* the values a caller can hold for a table: those generated for it, and junk
Presentable(kind) == IssuedOf(kind) \cup {JunkTok}

(* the records a step leaves: the call went on past its checks, went on to *)
(* delete an expired row, returned, or threw                               *)
Passed(c, step) == c @@ [step |-> step, phase |-> "passed", error |-> ""]
FoundExpired(c, step) == c @@ [step |-> step, phase |-> "expired", error |-> ""]
Returned(c, step) == c @@ [step |-> step, phase |-> "returned", error |-> ""]
Threw(c, step, msg) == c @@ [step |-> step, phase |-> "threw", error |-> msg]

\* request p goes to position s with locals c
Goto(p, s, c) ==
    /\ pc' = [pc EXCEPT ![p] = s]
    /\ call' = [call EXCEPT ![p] = c]

\* request p ends
Finish(p) == Goto(p, "idle", Idle)

\* the comparison the wrong way round
ExpiredReversed(row, t) == t < row.expiresAt

\* Date.now() > expiresAt.getTime()
Expired(row, t) == t > row.expiresAt

\* Prisma's rejection of a delete that finds no row
P2025 == "Record to delete does not exist"

\* a connection no request has come on
Unused == [pc |-> "unused", route |-> "", tok |-> EmptyTok, sessionId |-> NoSession,
           open |-> FALSE, listening |-> FALSE]

\* index.ts at start: no session
SessionsEmpty ==
    /\ activeConnections = <<>>
    /\ conns = [r \in Conns |-> Unused]
    /\ nextSession = 1
    /\ handed = <<>>
    /\ shutdown = "running"

\* new DatabaseClientsStore(prisma) over the table db, and initialize() called
\* by the provider's constructor: findMany not answered yet
StoreAtStart(db) ==
    /\ clients = <<>>
    /\ initialized = FALSE
    /\ oAuthClient = db
    /\ load = [pc |-> "findMany", rows |-> <<>>]
    /\ writes = {}
    /\ registered = <<>>
    /\ nextReg = 1

Init ==
    /\ SessionsEmpty
    /\ StoreAtStart(<<>>)
    /\ codes = <<>>
    /\ accessTokens = <<>>
    /\ refreshTokens = <<>>
    /\ now = 0
    /\ ticks = 0
    /\ nextTok = 1
    /\ calls = 0
    /\ pc = [p \in Procs |-> "idle"]
    /\ call = [p \in Procs |-> Idle]
    /\ last = NoEvent
    /\ issued = {}
    /\ consumed = {}

(* ------------------------------- clock -------------------------------- *)
\* enough to outlive a code and an access token, or a refresh token too
TickDeltas == {AccessTtl + 1, RefreshTtl + 1}

Tick ==
    /\ Quiet
    /\ ticks < MaxTicks
    /\ \E d \in TickDeltas : now' = now + d
    /\ ticks' = ticks + 1
    /\ UNCHANGED <<calls, codes, accessTokens, refreshTokens, nextTok, pc, call, last,
                   issued, consumed>>
    /\ UNCHANGED <<sessionVars, clientVars>>

Observed ==
    /\ ~Quiet
    /\ last' = NoEvent
    /\ UNCHANGED <<calls, codes, accessTokens, refreshTokens, now, ticks, nextTok, pc,
                   call, issued, consumed>>
    /\ UNCHANGED <<sessionVars, clientVars>>

(* ----------------------------- handleLogin ---------------------------- *)
\* { success, authCode?, error? }
LoginResult(c, success, authCode, error) ==
    c @@ [step |-> "handleLogin", phase |-> "returned", success |-> success,
          authCode |-> authCode, error |-> error]

\* the error handleLogin returns for an email and a password, "" when the
\* login passes (every seeded user has a password hash)
LoginError(email, password) ==
    IF email \notin DOMAIN UserTable THEN "User not found"
    ELSE IF ~BcryptCompare(password, UserTable[email].password) THEN "Invalid password"
    ELSE ""

\* The user table is never written, so the lookup, the bcrypt comparison and
\* the create are one step.  `state` is passed in and never used.
HandleLogin(p, email, password, clientId, codeChallenge, redirectUri, scopes) ==
    /\ Start(p)
    /\ LET found == email \in DOMAIN UserTable
           valid == found /\ BcryptCompare(password, UserTable[email].password)
           authCode == nextTok
           row == [code |-> authCode, clientId |-> clientId,
                   userId |-> UserTable[email].id,
                   codeChallenge |-> codeChallenge, redirectUri |-> redirectUri,
                   expiresAt |-> now + CodeTtl, scopes |-> scopes]
           base == [op |-> "handleLogin", email |-> email,
                   password |-> password, clientId |-> clientId,
                   codeChallenge |-> codeChallenge, redirectUri |-> redirectUri,
                   scopes |-> scopes]
       IN  IF ~found \/ ~valid THEN
               /\ last' = LoginResult(base, FALSE, 0, LoginError(email, password))
               /\ UNCHANGED <<codes, nextTok, issued>>
           ELSE
               /\ nextTok <= MaxTok
               /\ Cardinality(IssuedOf("code")) < MaxCodes
               /\ codes' = With(codes, authCode, row)
               /\ nextTok' = nextTok + 1
               /\ issued' = issued \cup
                    {[tok |-> authCode, kind |-> "code", clientId |-> clientId,
                      userId |-> row.userId, scopes |-> scopes,
                      grant |-> "login", from |-> 0, pair |-> 0]}
               /\ last' = LoginResult(base, TRUE, authCode, "")
    /\ UNCHANGED <<accessTokens, refreshTokens, now, ticks, pc, call, consumed>>
    /\ UNCHANGED <<sessionVars, clientVars>>

Login ==
    \E p \in Procs, email \in Emails, password \in Passwords, clientId \in Clients,
       codeChallenge \in LoginChallenges, redirectUri \in LoginRedirects,
       scopes \in LoginScopes :
        HandleLogin(p, email, password, clientId, codeChallenge, redirectUri, scopes)

(* -------------------- challengeForAuthorizationCode ------------------- *)
ChFind(p, client, code) ==
    /\ Start(p)
    /\ LET args == [op |-> "challengeForAuthorizationCode", client |-> client,
                    tok |-> code]
       IN  IF code \notin DOMAIN codes \/ codes[code].clientId # client THEN
               /\ last' = Threw(args, "chFind", "Invalid authorization code")
               /\ UNCHANGED <<pc, call>>
           ELSE IF Expired(codes[code], now) THEN
               /\ last' = FoundExpired(args, "chFind")
               /\ Goto(p, "chDeleteExpired", args)
           ELSE
               /\ last' = Returned(args @@ [challenge |-> codes[code].codeChallenge],
                                   "chFind")
               /\ UNCHANGED <<pc, call>>
    /\ UNCHANGED <<codes, accessTokens, refreshTokens, now, ticks, nextTok, issued,
                   consumed>>
    /\ UNCHANGED <<sessionVars, clientVars>>

\* the call throws and the expired code is left in place
ChDeleteExpiredSkipped(p) ==
    /\ At(p, "chDeleteExpired")
    /\ last' = Threw(call[p], "chDeleteExpired", "Authorization code expired")
    /\ Finish(p)
    /\ UNCHANGED <<calls, codes, accessTokens, refreshTokens, now, ticks, nextTok, issued,
                   consumed>>
    /\ UNCHANGED <<sessionVars, clientVars>>

\* the expired code is deleted, then the call throws
ChDeleteExpired(p) ==
    /\ At(p, "chDeleteExpired")
    /\ IF call[p].tok \in DOMAIN codes THEN
           /\ codes' = Without(codes, call[p].tok)
           /\ last' = Threw(call[p], "chDeleteExpired", "Authorization code expired")
       ELSE
           /\ last' = Threw(call[p], "chDeleteExpired", P2025)
           /\ UNCHANGED codes
    /\ Finish(p)
    /\ UNCHANGED <<calls, accessTokens, refreshTokens, now, ticks, nextTok, issued, consumed>>
    /\ UNCHANGED <<sessionVars, clientVars>>

ChallengeForAuthorizationCode ==
    \/ \E p \in Procs, client \in Clients, code \in Presentable("code") :
            ChFind(p, client, code)
    \/ \E p \in Procs : ChDeleteExpired(p)

(* ---------------------- exchangeAuthorizationCode --------------------- *)
\* the redirect URI never compared
RedirectMismatchIgnored(redirectUri, authData) == FALSE

\* redirectUri given and different from the bound one
RedirectMismatch(redirectUri, authData) ==
    Truthy(redirectUri) /\ authData.redirectUri # redirectUri

\* the verifier compared as it is, not hashed
PkceMismatchUnhashed(codeVerifier, authData) ==
    Truthy(codeVerifier) /\ codeVerifier # authData.codeChallenge

\* a missing verifier counted as a mismatch
PkceMismatchRequired(codeVerifier, authData) ==
    ~Truthy(codeVerifier) \/ Sha256B64Url(codeVerifier) # authData.codeChallenge

\* codeVerifier given and its S256 challenge differs from the stored one
PkceMismatch(codeVerifier, authData) ==
    Truthy(codeVerifier) /\ Sha256B64Url(codeVerifier) # authData.codeChallenge

\* the history entry of a token row created by call c
Minted(c, kind, row, grant) ==
    [tok |-> row.token, kind |-> kind, clientId |-> row.clientId,
     userId |-> row.userId, scopes |-> row.scopes, grant |-> grant,
     from |-> c.tok, pair |-> c.accessToken]

\* scopes.join(' ')
RECURSIVE Join(_)
Join(list) ==
    IF list = <<>> THEN ""
    ELSE IF Len(list) = 1 THEN list[1]
    ELSE list[1] \o " " \o Join(Tail(list))

\* the response with the lifetime in milliseconds
TokenResponseMillis(c, step, scopes) ==
    Returned(c @@ [access_token |-> c.accessToken, token_type |-> "Bearer",
                   expires_in |-> ExpiresIn * 1000,
                   refresh_token |-> c.refreshToken, scope |-> Join(scopes)], step)

\* { access_token, token_type, expires_in, refresh_token, scope }
TokenResponse(c, step, scopes) ==
    Returned(c @@ [access_token |-> c.accessToken, token_type |-> "Bearer",
                   expires_in |-> ExpiresIn, refresh_token |-> c.refreshToken,
                   scope |-> Join(scopes)], step)

\* a redemption that deletes the code when the redirect or the PKCE check fails
XcFindConsuming(p, client, code, verifier, redirect) ==
    /\ Start(p)
    /\ LET args == [op |-> "exchangeAuthorizationCode", client |-> client,
                    tok |-> code]
           seen == args @@ [verifier |-> verifier, redirect |-> redirect]
       IN  IF code \notin DOMAIN codes \/ codes[code].clientId # client THEN
               /\ last' = Threw(seen, "xcFind", "Invalid authorization code")
               /\ UNCHANGED <<pc, call, nextTok, codes>>
           ELSE IF Expired(codes[code], now) THEN
               /\ last' = FoundExpired(seen, "xcFind")
               /\ Goto(p, "xcDeleteExpired", args)
               /\ UNCHANGED <<nextTok, codes>>
           ELSE IF RedirectMismatch(redirect, codes[code]) THEN
               /\ last' = Threw(seen, "xcFind", "Invalid redirect URI")
               /\ codes' = Without(codes, code)
               /\ UNCHANGED <<pc, call, nextTok>>
           ELSE IF PkceMismatch(verifier, codes[code]) THEN
               /\ last' = Threw(seen, "xcFind", "Invalid code verifier")
               /\ codes' = Without(codes, code)
               /\ UNCHANGED <<pc, call, nextTok>>
           ELSE
               /\ nextTok + 1 <= MaxTok
               /\ last' = Passed(seen, "xcFind")
               /\ Goto(p, "xcCreateAccess",
                       args @@ [authData |-> codes[code],
                                accessToken |-> nextTok,
                                refreshToken |-> nextTok + 1,
                                expiresAt |-> now + AccessTtl])
               /\ nextTok' = nextTok + 2
               /\ UNCHANGED codes
    /\ UNCHANGED <<accessTokens, refreshTokens, now, ticks, issued, consumed>>
    /\ UNCHANGED <<sessionVars, clientVars>>

\* findUnique on the code, then the checks, then the two tokens are generated
\* and the access token's expiry is taken from the clock
XcFind(p, client, code, verifier, redirect) ==
    /\ Start(p)
    /\ LET args == [op |-> "exchangeAuthorizationCode", client |-> client,
                    tok |-> code]
           seen == args @@ [verifier |-> verifier, redirect |-> redirect]
       IN  IF code \notin DOMAIN codes \/ codes[code].clientId # client THEN
               /\ last' = Threw(seen, "xcFind", "Invalid authorization code")
               /\ UNCHANGED <<pc, call, nextTok>>
           ELSE IF Expired(codes[code], now) THEN
               /\ last' = FoundExpired(seen, "xcFind")
               /\ Goto(p, "xcDeleteExpired", args)
               /\ UNCHANGED nextTok
           ELSE IF RedirectMismatch(redirect, codes[code]) THEN
               /\ last' = Threw(seen, "xcFind", "Invalid redirect URI")
               /\ UNCHANGED <<pc, call, nextTok>>
           ELSE IF PkceMismatch(verifier, codes[code]) THEN
               /\ last' = Threw(seen, "xcFind", "Invalid code verifier")
               /\ UNCHANGED <<pc, call, nextTok>>
           ELSE
               /\ nextTok + 1 <= MaxTok
               /\ last' = Passed(seen, "xcFind")
               /\ Goto(p, "xcCreateAccess",
                       args @@ [authData |-> codes[code],
                                accessToken |-> nextTok,
                                refreshToken |-> nextTok + 1,
                                expiresAt |-> now + AccessTtl])
               /\ nextTok' = nextTok + 2
    /\ UNCHANGED <<codes, accessTokens, refreshTokens, now, ticks, issued, consumed>>
    /\ UNCHANGED <<sessionVars, clientVars>>

\* the expired code is deleted, then the call throws
XcDeleteExpired(p) ==
    /\ At(p, "xcDeleteExpired")
    /\ IF call[p].tok \in DOMAIN codes THEN
           /\ codes' = Without(codes, call[p].tok)
           /\ last' = Threw(call[p], "xcDeleteExpired", "Authorization code expired")
       ELSE
           /\ last' = Threw(call[p], "xcDeleteExpired", P2025)
           /\ UNCHANGED codes
    /\ Finish(p)
    /\ UNCHANGED <<calls, accessTokens, refreshTokens, now, ticks, nextTok, issued, consumed>>
    /\ UNCHANGED <<sessionVars, clientVars>>

\* accessToken.create; then the refresh token's expiry is taken from the clock
XcCreateAccess(p) ==
    /\ At(p, "xcCreateAccess")
    /\ LET c == call[p]
           row == [token |-> c.accessToken, clientId |-> c.client,
                   userId |-> c.authData.userId, scopes |-> c.authData.scopes,
                   expiresAt |-> c.expiresAt]
       IN  /\ accessTokens' = With(accessTokens, c.accessToken, row)
           /\ issued' = issued \cup {Minted(c, "access", row, "code")}
           /\ Goto(p, "xcCreateRefresh",
                   c @@ [refreshExpiresAt |-> now + RefreshTtl])
    /\ UNCHANGED <<calls, codes, refreshTokens, now, ticks, nextTok, last, consumed>>
    /\ UNCHANGED <<sessionVars, clientVars>>

\* refreshToken.create
XcCreateRefresh(p) ==
    /\ At(p, "xcCreateRefresh")
    /\ LET c == call[p]
           row == [token |-> c.refreshToken, clientId |-> c.client,
                   userId |-> c.authData.userId, scopes |-> c.authData.scopes,
                   expiresAt |-> c.refreshExpiresAt]
       IN  /\ refreshTokens' = With(refreshTokens, c.refreshToken, row)
           /\ issued' = issued \cup {Minted(c, "refresh", row, "code")}
           /\ Goto(p, "xcDeleteCode", c)
    /\ UNCHANGED <<calls, codes, accessTokens, now, ticks, nextTok, last, consumed>>
    /\ UNCHANGED <<sessionVars, clientVars>>

\* the token pair is returned and the code is left in place
XcDeleteCodeSkipped(p) ==
    /\ At(p, "xcDeleteCode")
    /\ last' = TokenResponse(call[p], "xcDeleteCode", call[p].authData.scopes)
    /\ consumed' = consumed \cup {[tok |-> call[p].tok, how |-> "redeemed"]}
    /\ Finish(p)
    /\ UNCHANGED <<calls, codes, accessTokens, refreshTokens, now, ticks, nextTok,
                   issued>>
    /\ UNCHANGED <<sessionVars, clientVars>>

\* authorizationCode.delete, then the token pair is returned
XcDeleteCode(p) ==
    /\ At(p, "xcDeleteCode")
    /\ IF call[p].tok \in DOMAIN codes THEN
           /\ codes' = Without(codes, call[p].tok)
           /\ last' = TokenResponse(call[p], "xcDeleteCode", call[p].authData.scopes)
           /\ consumed' = consumed \cup {[tok |-> call[p].tok, how |-> "redeemed"]}
       ELSE
           /\ last' = Threw(call[p], "xcDeleteCode", P2025)
           /\ UNCHANGED <<codes, consumed>>
    /\ Finish(p)
    /\ UNCHANGED <<calls, accessTokens, refreshTokens, now, ticks, nextTok, issued>>
    /\ UNCHANGED <<sessionVars, clientVars>>

ExchangeAuthorizationCode ==
    \/ \E p \in Procs, client \in Clients, code \in Presentable("code"),
          verifier \in VerifierArgs, redirect \in RedirectArgs :
            XcFind(p, client, code, verifier, redirect)
    \/ \E p \in Procs : XcDeleteExpired(p)
    \/ \E p \in Procs : XcCreateAccess(p)
    \/ \E p \in Procs : XcCreateRefresh(p)
    \/ \E p \in Procs : XcDeleteCode(p)

(* ------------------------- exchangeRefreshToken ----------------------- *)
\* scopes || tokenData.scopes: an array, also an empty one, is truthy
FinalScopes(scopes, tokenData) ==
    IF scopes.given THEN scopes.list ELSE tokenData.scopes

\* findUnique on the refresh token, the checks, then the two tokens are
\* generated and the access token's expiry is taken from the clock
RfFind(p, client, token, scopes) ==
    /\ Start(p)
    /\ LET args == [op |-> "exchangeRefreshToken", client |-> client,
                    tok |-> token]
           seen == args @@ [scopes |-> scopes]
       IN  IF token \notin DOMAIN refreshTokens
              \/ refreshTokens[token].clientId # client THEN
               /\ last' = Threw(seen, "rfFind", "Invalid refresh token")
               /\ UNCHANGED <<pc, call, nextTok>>
           ELSE IF Expired(refreshTokens[token], now) THEN
               /\ last' = FoundExpired(seen, "rfFind")
               /\ Goto(p, "rfDeleteExpired", args)
               /\ UNCHANGED nextTok
           ELSE
               /\ nextTok + 1 <= MaxTok
               /\ last' = Passed(seen, "rfFind")
               /\ Goto(p, "rfCreateAccess",
                       seen @@ [tokenData |-> refreshTokens[token],
                                finalScopes |->
                                    FinalScopes(scopes, refreshTokens[token]),
                                accessToken |-> nextTok,
                                refreshToken |-> nextTok + 1,
                                expiresAt |-> now + AccessTtl])
               /\ nextTok' = nextTok + 2
    /\ UNCHANGED <<codes, accessTokens, refreshTokens, now, ticks, issued, consumed>>
    /\ UNCHANGED <<sessionVars, clientVars>>

\* the expired refresh token is deleted, then the call throws
RfDeleteExpired(p) ==
    /\ At(p, "rfDeleteExpired")
    /\ IF call[p].tok \in DOMAIN refreshTokens THEN
           /\ refreshTokens' = Without(refreshTokens, call[p].tok)
           /\ last' = Threw(call[p], "rfDeleteExpired", "Refresh token expired")
       ELSE
           /\ last' = Threw(call[p], "rfDeleteExpired", P2025)
           /\ UNCHANGED refreshTokens
    /\ Finish(p)
    /\ UNCHANGED <<calls, codes, accessTokens, now, ticks, nextTok, issued, consumed>>
    /\ UNCHANGED <<sessionVars, clientVars>>

\* accessToken.create
RfCreateAccess(p) ==
    /\ At(p, "rfCreateAccess")
    /\ LET c == call[p]
           row == [token |-> c.accessToken, clientId |-> c.client,
                   userId |-> c.tokenData.userId, scopes |-> c.finalScopes,
                   expiresAt |-> c.expiresAt]
       IN  /\ accessTokens' = With(accessTokens, c.accessToken, row)
           /\ issued' = issued \cup {Minted(c, "access", row, "refresh")}
           /\ Goto(p, "rfDeleteOld", c)
    /\ UNCHANGED <<calls, codes, refreshTokens, now, ticks, nextTok, last, consumed>>
    /\ UNCHANGED <<sessionVars, clientVars>>

\* the presented token is left in place
RfDeleteOldSkipped(p) ==
    /\ At(p, "rfDeleteOld")
    /\ Goto(p, "rfCreateNew", call[p] @@ [refreshExpiresAt |-> now + RefreshTtl])
    /\ UNCHANGED <<calls, codes, accessTokens, refreshTokens, now, ticks, nextTok,
                   last, issued, consumed>>
    /\ UNCHANGED <<sessionVars, clientVars>>

\* refreshToken.delete of the presented token; then the new refresh token's
\* expiry is taken from the clock
RfDeleteOld(p) ==
    /\ At(p, "rfDeleteOld")
    /\ IF call[p].tok \in DOMAIN refreshTokens THEN
           /\ refreshTokens' = Without(refreshTokens, call[p].tok)
           /\ Goto(p, "rfCreateNew",
                   call[p] @@ [refreshExpiresAt |-> now + RefreshTtl])
           /\ UNCHANGED last
       ELSE
           /\ last' = Threw(call[p], "rfDeleteOld", P2025)
           /\ Finish(p)
           /\ UNCHANGED refreshTokens
    /\ UNCHANGED <<calls, codes, accessTokens, now, ticks, nextTok, issued, consumed>>
    /\ UNCHANGED <<sessionVars, clientVars>>

\* refreshToken.create of the new token, then the token pair is returned
RfCreateNew(p) ==
    /\ At(p, "rfCreateNew")
    /\ LET c == call[p]
           row == [token |-> c.refreshToken, clientId |-> c.client,
                   userId |-> c.tokenData.userId, scopes |-> c.finalScopes,
                   expiresAt |-> c.refreshExpiresAt]
       IN  /\ refreshTokens' = With(refreshTokens, c.refreshToken, row)
           /\ issued' = issued \cup {Minted(c, "refresh", row, "refresh")}
           /\ last' = TokenResponse(c, "rfCreateNew", c.finalScopes)
           /\ consumed' = consumed \cup {[tok |-> c.tok, how |-> "rotated"]}
    /\ Finish(p)
    /\ UNCHANGED <<calls, codes, accessTokens, now, ticks, nextTok>>
    /\ UNCHANGED <<sessionVars, clientVars>>

ExchangeRefreshToken ==
    \/ \E p \in Procs, client \in Clients, token \in Presentable("refresh"),
          scopes \in ScopeArgs :
            RfFind(p, client, token, scopes)
    \/ \E p \in Procs : RfDeleteExpired(p)
    \/ \E p \in Procs : RfCreateAccess(p)
    \/ \E p \in Procs : RfDeleteOld(p)
    \/ \E p \in Procs : RfCreateNew(p)

(* ------------- getFlexibleAuthMiddleware / verifyAccessToken ---------- *)
\* The Authorization header: absent, or a scheme and what follows it.  The
\* access_token query parameter: absent, or its value.  EmptyTok is the empty
\* string.
NoHeader == [present |-> FALSE, scheme |-> "", value |-> EmptyTok]
NoQuery == [present |-> FALSE, value |-> EmptyTok]
HeaderArgs ==
    {NoHeader}
    \cup {[present |-> TRUE, scheme |-> "Bearer", value |-> t] :
            t \in Presentable("access") \cup {EmptyTok}}
    \cup {[present |-> TRUE, scheme |-> "Basic", value |-> t] :
            t \in IssuedOf("access")}
QueryArgs ==
    {NoQuery}
    \cup {[present |-> TRUE, value |-> t] : t \in Presentable("access")}

\* the header's value taken whatever its scheme
BearerTokenAnyScheme(header, query) ==
    LET fromHeader == IF header.present THEN header.value ELSE EmptyTok
    IN  IF fromHeader # EmptyTok THEN fromHeader
        ELSE IF query.present /\ query.value # EmptyTok THEN query.value
        ELSE EmptyTok

\* the query parameter tried first
BearerTokenQueryFirst(header, query) ==
    LET fromHeader == IF header.present /\ header.scheme = "Bearer"
                      THEN header.value ELSE EmptyTok
    IN  IF query.present /\ query.value # EmptyTok THEN query.value
        ELSE fromHeader

\* authHeader.startsWith('Bearer ') ? authHeader.substring(7) : undefined, then
\* the query parameter when that gave nothing; EmptyTok when neither did
BearerToken(header, query) ==
    LET fromHeader == IF header.present /\ header.scheme = "Bearer"
                      THEN header.value ELSE EmptyTok
    IN  IF fromHeader # EmptyTok THEN fromHeader
        ELSE IF query.present /\ query.value # EmptyTok THEN query.value
        ELSE EmptyTok

\* the AuthInfo without the row's scopes
AuthInfoNoScopes(token, tokenData) ==
    [token |-> token, clientId |-> tokenData.clientId, scopes |-> <<>>,
     expiresAt |-> tokenData.expiresAt, userId |-> tokenData.userId]

\* the AuthInfo verifyAccessToken returns; expiresAt is Math.floor(ms / 1000),
\* the row's own value on this clock of seconds
AuthInfo(token, tokenData) ==
    [token |-> token, clientId |-> tokenData.clientId, scopes |-> tokenData.scopes,
     expiresAt |-> tokenData.expiresAt, userId |-> tokenData.userId]

NoAuth == [token |-> EmptyTok]

\* the WWW-Authenticate response header: not set, or the value handle401 sets
NoChallenge == ""
WwwAuthenticate ==
    "Bearer realm=\"MCP Server\", auth_uri=\"/.well-known/oauth-protected-resource\""

\* what the gate did with the request: 401 with a body, or next() with req.auth
Rejected(c, step, msg) ==
    c @@ [step |-> step, phase |-> "returned", status |-> 401, error |-> msg,
          next |-> FALSE, auth |-> NoAuth, wwwAuthenticate |-> NoChallenge]
Admitted(c, step, auth) ==
    c @@ [step |-> step, phase |-> "returned", status |-> 200, error |-> "",
          next |-> TRUE, auth |-> auth]

\* the token is taken from the request; without one the gate answers at once;
\* with one, verifyAccessToken reads the row and checks it
GateVerify(p, header, query) ==
    /\ Start(p)
    /\ LET token == BearerToken(header, query)
           args == [op |-> "getFlexibleAuthMiddleware", tok |-> token]
           seen == args @@ [header |-> header, query |-> query]
       IN  IF token = EmptyTok THEN
               /\ last' = Rejected(seen, "gateNoToken", "Missing access token")
               /\ UNCHANGED <<pc, call>>
           ELSE IF token \notin DOMAIN accessTokens THEN
               /\ last' = Rejected(seen, "gateVerify", "Authentication failed")
               /\ UNCHANGED <<pc, call>>
           ELSE IF Expired(accessTokens[token], now) THEN
               /\ last' = FoundExpired(seen, "gateVerify")
               /\ Goto(p, "gateDeleteExpired", args)
           ELSE
               /\ last' = Admitted(seen, "gateVerify",
                                   AuthInfo(token, accessTokens[token]))
               /\ UNCHANGED <<pc, call>>
    /\ UNCHANGED <<codes, accessTokens, refreshTokens, now, ticks, nextTok, issued,
                   consumed>>
    /\ UNCHANGED <<sessionVars, clientVars>>

\* verifyAccessToken deletes the expired row and throws; the gate answers 401
GateDeleteExpired(p) ==
    /\ At(p, "gateDeleteExpired")
    /\ IF call[p].tok \in DOMAIN accessTokens
       THEN accessTokens' = Without(accessTokens, call[p].tok)
       ELSE UNCHANGED accessTokens
    /\ last' = Rejected(call[p], "gateDeleteExpired", "Authentication failed")
    /\ Finish(p)
    /\ UNCHANGED <<calls, codes, refreshTokens, now, ticks, nextTok, issued, consumed>>
    /\ UNCHANGED <<sessionVars, clientVars>>

FlexibleAuthMiddleware ==
    \/ \E p \in Procs, header \in HeaderArgs, query \in QueryArgs :
            GateVerify(p, header, query)
    \/ \E p \in Procs : GateDeleteExpired(p)

(* ------------------------------ revokeToken --------------------------- *)
\* the ownership check left out
OwnedInAnyClient(table, token, client) == token \in DOMAIN table

\* the row of the token exists in the table and belongs to the client
OwnedIn(table, token, client) ==
    token \in DOMAIN table /\ table[token].clientId = client

\* findUnique in accessToken
RvFindAccess(p, client, token) ==
    /\ Start(p)
    /\ LET args == [op |-> "revokeToken", client |-> client, tok |-> token]
       IN  IF OwnedIn(accessTokens, token, client)
           THEN Goto(p, "rvDeleteAccess", args)
           ELSE Goto(p, "rvFindRefresh", args)
    /\ UNCHANGED <<codes, accessTokens, refreshTokens, now, ticks, nextTok, last,
                   issued, consumed>>
    /\ UNCHANGED <<sessionVars, clientVars>>

\* accessToken.delete, then return
RvDeleteAccess(p) ==
    /\ At(p, "rvDeleteAccess")
    /\ IF call[p].tok \in DOMAIN accessTokens THEN
           /\ accessTokens' = Without(accessTokens, call[p].tok)
           /\ last' = Returned(call[p], "rvDeleteAccess")
           /\ consumed' = consumed \cup {[tok |-> call[p].tok, how |-> "revoked"]}
       ELSE
           /\ last' = Threw(call[p], "rvDeleteAccess", P2025)
           /\ UNCHANGED <<accessTokens, consumed>>
    /\ Finish(p)
    /\ UNCHANGED <<calls, codes, refreshTokens, now, ticks, nextTok, issued>>
    /\ UNCHANGED <<sessionVars, clientVars>>

\* findUnique in refreshToken; neither table has the client's row: return
RvFindRefresh(p) ==
    /\ At(p, "rvFindRefresh")
    /\ IF OwnedIn(refreshTokens, call[p].tok, call[p].client) THEN
           /\ Goto(p, "rvDeleteRefresh", call[p])
           /\ UNCHANGED last
       ELSE
           /\ last' = Returned(call[p], "rvFindRefresh")
           /\ Finish(p)
    /\ UNCHANGED <<calls, codes, accessTokens, refreshTokens, now, ticks, nextTok, issued,
                   consumed>>
    /\ UNCHANGED <<sessionVars, clientVars>>

\* refreshToken.delete, then return
RvDeleteRefresh(p) ==
    /\ At(p, "rvDeleteRefresh")
    /\ IF call[p].tok \in DOMAIN refreshTokens THEN
           /\ refreshTokens' = Without(refreshTokens, call[p].tok)
           /\ last' = Returned(call[p], "rvDeleteRefresh")
           /\ consumed' = consumed \cup {[tok |-> call[p].tok, how |-> "revoked"]}
       ELSE
           /\ last' = Threw(call[p], "rvDeleteRefresh", P2025)
           /\ UNCHANGED <<refreshTokens, consumed>>
    /\ Finish(p)
    /\ UNCHANGED <<calls, codes, accessTokens, now, ticks, nextTok, issued>>
    /\ UNCHANGED <<sessionVars, clientVars>>

RevokeToken ==
    \/ \E p \in Procs, client \in Clients,
          token \in IssuedOf("access") \cup Presentable("refresh") :
            RvFindAccess(p, client, token)
    \/ \E p \in Procs : RvDeleteAccess(p)
    \/ \E p \in Procs : RvFindRefresh(p)
    \/ \E p \in Procs : RvDeleteRefresh(p)

(* ------------- the routes GET /sse, POST /message, GET /health -------- *)
Routes == {"GET /sse", "POST /message"}

\* the sessionId query parameter of POST /message: a transport's id, or junk
SessionArgs == (1..(nextSession - 1)) \cup {JunkSession}

\* the ledger of a route's step: only the access-token table is touched; and
\* the step is none of the signal handler's
RouteLedgerUnchanged ==
    UNCHANGED <<codes, refreshTokens, now, ticks, nextTok, calls, pc, call, issued,
                consumed, shutdown, clientVars>>

\* a request comes on the lowest connection not used yet
Accepts(r) ==
    /\ Quiet
    /\ shutdown = "running"
    /\ conns[r].pc = "unused"
    /\ \A q \in Conns : q < r => conns[q].pc # "unused"

\* the handler of connection r is at position s
Serving(r, s) == Quiet /\ shutdown # "exited" /\ conns[r].pc = s

\* the handler of connection r has ended; a connection whose request was
\* answered is followed no further
Done(r, stillOpen) ==
    [conns EXCEPT ![r] = [@ EXCEPT !.pc = "done", !.tok = EmptyTok,
                                   !.open = stillOpen /\ @]]

\* new SSEServerTransport('/message', res)
Transport(sessionId, r) == [sessionId |-> sessionId, res |-> r]

\* the X-USER-ID header and the X-USER-ID query parameter of a request
XUserIdArgs == {Undefined, "1"}

\* no user id: null, NaN and 0 are all falsy in `if (!userId)`
NoUser == 0

\* getUserMiddleware: req.userId is set from req.auth.extra.userId when truthy
UserMiddleware(auth) == auth.userId

\* the X-USER-ID header or query parameter tried before req.userId
GetUserIdHeaderFirst(reqUserId, userIdHeader, userIdQuery) ==
    IF Truthy(OrElse(userIdHeader, userIdQuery))
       /\ ~ParseInt(OrElse(userIdHeader, userIdQuery)).nan
    THEN ParseInt(OrElse(userIdHeader, userIdQuery)).value
    ELSE reqUserId

\* getUserId: req.userId when truthy, else parseInt of the X-USER-ID header or
\* query parameter
GetUserId(reqUserId, userIdHeader, userIdQuery) ==
    IF reqUserId # NoUser THEN reqUserId
    ELSE IF Truthy(OrElse(userIdHeader, userIdQuery))
         THEN IF ParseInt(OrElse(userIdHeader, userIdQuery)).nan THEN NoUser
              ELSE ParseInt(OrElse(userIdHeader, userIdQuery)).value
         ELSE NoUser

\* createMCPServer(userId): the server whose tool handlers close over userId
CreateMCPServer(userId) == [userId |-> userId]

\* mcpServer.connect(transport): the transport's messages go to the server
Connect(transport, mcpServer) == transport @@ [server |-> mcpServer]

\* getPrisma(userId): enhance(prisma, { user: { id: userId } })
GetPrisma(userId) == [user |-> [id |-> userId]]

\* a tool handler that reads the user of the session created last
ToolUserOfLatest(transport) ==
    IF activeConnections = <<>> THEN transport.server.userId
    ELSE activeConnections[CHOOSE x \in DOMAIN activeConnections :
                                \A y \in DOMAIN activeConnections : y <= x].server.userId

\* the userId a tool handler reached through the transport runs with: that of
\* the server connected to it
ToolUser(transport) == transport.server.userId

\* handle401: 401 with the WWW-Authenticate header
Handle401(c, step) ==
    c @@ [step |-> step, phase |-> "returned", status |-> 401,
          error |-> "unauthorized", next |-> FALSE, auth |-> NoAuth,
          wwwAuthenticate |-> WwwAuthenticate]

\* The request reaches the gate, the route's first middleware: the token is
\* taken from the request; without one the gate answers 401 at once, with one
\* it calls verifyAccessToken and awaits the store.
RouteRequest(r, route, header, query, sessionId) ==
    /\ Accepts(r)
    /\ LET token == BearerToken(header, query)
           seen == [op |-> route, tok |-> token, header |-> header, query |-> query,
                    sessionId |-> sessionId]
           req == [Unused EXCEPT !.route = route, !.tok = token,
                                 !.sessionId = sessionId, !.open = TRUE]
       IN  IF token = EmptyTok THEN
               /\ last' = Rejected(seen, "routeRequest", "Missing access token")
               /\ conns' = [conns EXCEPT ![r] = [req EXCEPT !.pc = "done",
                                                             !.open = FALSE]]
           ELSE
               /\ last' = Passed(seen, "routeRequest")
               /\ conns' = [conns EXCEPT ![r] = [req EXCEPT !.pc = "routeVerify"]]
    /\ UNCHANGED <<accessTokens, activeConnections, nextSession, handed>>
    /\ RouteLedgerUnchanged

\* handleSSEConnection up to its await, after getUserMiddleware has set
\* req.userId from req.auth: the transport is created and stored, and
\* mcpServer.connect is called.  getUserId falls back to X-USER-ID only when
\* req.userId is falsy, which no stored row's user id is.  The X-USER-ID
\* header and query parameter are read here and nowhere else, so they are
\* drawn at this step.
HandleSSEConnection(r, seen, auth) ==
    \E userIdHeader \in XUserIdArgs, userIdQuery \in XUserIdArgs :
    LET userId == GetUserId(UserMiddleware(auth), userIdHeader, userIdQuery)
        transport == Connect(Transport(nextSession, r), CreateMCPServer(userId))
    IN
    IF userId = NoUser THEN
        /\ last' = Handle401(seen, "routeVerify")
        /\ conns' = Done(r, TRUE)
        /\ UNCHANGED <<activeConnections, nextSession, handed>>
    ELSE
        /\ nextSession <= MaxConns
        /\ activeConnections' = With(activeConnections, nextSession, transport)
        /\ conns' = [conns EXCEPT ![r] = [@ EXCEPT !.pc = "sseConnect",
                                                   !.sessionId = nextSession]]
        /\ nextSession' = nextSession + 1
        /\ UNCHANGED handed
        /\ last' = seen @@ [step |-> "routeVerify", phase |-> "passed", error |-> "",
                            status |-> 200, next |-> TRUE, auth |-> auth,
                            userIdHeader |-> userIdHeader, userIdQuery |-> userIdQuery,
                            transport |-> transport]

\* the handler of POST /message up to its await: the transport of the
\* sessionId is looked up and transport.handlePostMessage called with the
\* message; with no transport the handler returns having sent no response
\* (status 0), and the request stays open.  req.body comes parsed from
\* express.json(), so the branch for a string body is not taken.
HandleMessage(r, seen, auth) ==
    /\ IF seen.sessionId \in DOMAIN activeConnections THEN
           /\ last' = seen @@ [step |-> "routeVerify", phase |-> "passed",
                               error |-> "", status |-> 0, next |-> TRUE, auth |-> auth,
                               routed |-> TRUE,
                               transport |-> activeConnections[seen.sessionId]]
           /\ handed' = Append(handed, [sessionId |-> seen.sessionId, conn |-> r,
                                        transport |-> activeConnections[seen.sessionId]])
           /\ conns' = [conns EXCEPT ![r] = [@ EXCEPT !.pc = "msgHandling"]]
       ELSE
           /\ last' = seen @@ [step |-> "routeVerify", phase |-> "returned",
                               error |-> "", status |-> 0, next |-> TRUE, auth |-> auth,
                               routed |-> FALSE, transport |-> Transport(NoSession, r)]
           /\ conns' = Done(r, TRUE)
           /\ UNCHANGED handed
    /\ UNCHANGED <<activeConnections, nextSession>>

\* transport.handlePostMessage resolves: the transport has answered the
\* request and given the message to the server connected to it, whose tool
\* handler calls getPrisma with the userId it closes over; the handler returns
MessageHandled(r) ==
    /\ Serving(r, "msgHandling")
    /\ conns' = Done(r, FALSE)
    /\ \E i \in DOMAIN handed :
        /\ handed[i].conn = r
        /\ last' = [op |-> "POST /message", step |-> "msgHandled", phase |-> "returned",
                    sessionId |-> conns[r].sessionId, status |-> 202,
                    transport |-> handed[i].transport,
                    db |-> GetPrisma(ToolUser(handed[i].transport))]
    /\ UNCHANGED <<accessTokens, activeConnections, nextSession, handed>>
    /\ RouteLedgerUnchanged

\* verifyAccessToken's findUnique resolves: the gate answers 401 for an unknown
\* token, goes on to delete an expired one, and otherwise sets req.auth and
\* calls next(), which runs the route's handler up to its first await
RouteVerify(r) ==
    /\ Serving(r, "routeVerify")
    /\ LET c == conns[r]
           seen == [op |-> c.route, tok |-> c.tok, sessionId |-> c.sessionId]
       IN  IF c.tok \notin DOMAIN accessTokens THEN
               /\ last' = Rejected(seen, "routeVerify", "Authentication failed")
               /\ conns' = Done(r, FALSE)
               /\ UNCHANGED <<activeConnections, nextSession, handed>>
           ELSE IF Expired(accessTokens[c.tok], now) THEN
               /\ last' = FoundExpired(seen, "routeVerify")
               /\ conns' = [conns EXCEPT ![r] = [@ EXCEPT !.pc = "routeDeleteExpired"]]
               /\ UNCHANGED <<activeConnections, nextSession, handed>>
           ELSE IF c.route = "GET /sse" THEN
               HandleSSEConnection(r, seen, AuthInfo(c.tok, accessTokens[c.tok]))
           ELSE
               HandleMessage(r, seen, AuthInfo(c.tok, accessTokens[c.tok]))
    /\ UNCHANGED accessTokens
    /\ RouteLedgerUnchanged

\* verifyAccessToken deletes the expired row and throws; the gate answers 401
RouteDeleteExpired(r) ==
    /\ Serving(r, "routeDeleteExpired")
    /\ IF conns[r].tok \in DOMAIN accessTokens
       THEN accessTokens' = Without(accessTokens, conns[r].tok)
       ELSE UNCHANGED accessTokens
    /\ last' = Rejected([op |-> conns[r].route, tok |-> conns[r].tok,
                         sessionId |-> conns[r].sessionId],
                        "routeDeleteExpired", "Authentication failed")
    /\ conns' = Done(r, FALSE)
    /\ UNCHANGED <<activeConnections, nextSession, handed>>
    /\ RouteLedgerUnchanged

\* mcpServer.connect resolves; req.on('close', ...) puts the listener that
\* deletes the session on the request, and the handler returns
SseConnected(r) ==
    /\ Serving(r, "sseConnect")
    /\ conns' = [conns EXCEPT ![r] = [@ EXCEPT !.pc = "streaming", !.listening = TRUE]]
    /\ UNCHANGED <<accessTokens, activeConnections, nextSession, last, handed>>
    /\ RouteLedgerUnchanged

\* The client closes its connection: to GET /sse at any moment after its
\* request came, to POST /message when its request was left unanswered.
\* 'close' is emitted once, and the listeners on the request at that moment
\* run.
CloseConnection(r) ==
    /\ Quiet
    /\ shutdown # "exited"
    /\ conns[r].open
    /\ conns[r].route = "GET /sse" \/ conns[r].pc = "done"
    /\ conns' = [conns EXCEPT ![r] = [@ EXCEPT !.open = FALSE]]
    /\ IF conns[r].listening
       THEN activeConnections' = Without(activeConnections, conns[r].sessionId)
       ELSE UNCHANGED activeConnections
    /\ UNCHANGED <<accessTokens, nextSession, last, handed>>
    /\ RouteLedgerUnchanged

\* GET /health reports activeConnections.size
Health ==
    /\ Quiet
    /\ shutdown = "running"
    /\ last' = [op |-> "GET /health", step |-> "health", phase |-> "returned",
                status |-> "healthy",
                activeConnections |-> Cardinality(DOMAIN activeConnections)]
    /\ UNCHANGED <<accessTokens, activeConnections, conns, nextSession, handed>>
    /\ RouteLedgerUnchanged

\* the connections whose transport is in the session table
Tabled == {activeConnections[s].res : s \in DOMAIN activeConnections}

\* SIGINT: every transport in the session table is closed, which ends its
\* response and so its connection ('close' runs the listeners on it), and
\* server.close() stops the server accepting connections
Sigint ==
    /\ Quiet
    /\ shutdown = "running"
    /\ shutdown' = "draining"
    /\ conns' = [r \in Conns |->
                    IF r \in Tabled THEN [conns[r] EXCEPT !.open = FALSE] ELSE conns[r]]
    /\ activeConnections' =
            [s \in {x \in DOMAIN activeConnections :
                        ~(conns[activeConnections[x].res].open
                          /\ conns[activeConnections[x].res].listening)}
                |-> activeConnections[s]]
    /\ UNCHANGED <<codes, accessTokens, refreshTokens, now, ticks, nextTok, calls, pc,
                   call, last, issued, consumed, nextSession, handed, clientVars>>

\* the callback of server.close() runs once every connection has ended:
\* process.exit(0)
Exit ==
    /\ Quiet
    /\ shutdown = "draining"
    /\ \A r \in Conns : ~conns[r].open
    /\ shutdown' = "exited"
    /\ UNCHANGED <<codes, accessTokens, refreshTokens, now, ticks, nextTok, calls, pc,
                   call, last, issued, consumed, activeConnections, conns, nextSession,
                   handed, clientVars>>

SseRoute ==
    \/ \E r \in Conns, header \in HeaderArgs, query \in QueryArgs :
            RouteRequest(r, "GET /sse", header, query, NoSession)
    \/ \E r \in Conns : SseConnected(r)
    \/ \E r \in Conns : CloseConnection(r)

MessageRoute ==
    \/ \E r \in Conns, header \in HeaderArgs, query \in QueryArgs,
          sessionId \in SessionArgs :
            RouteRequest(r, "POST /message", header, query, sessionId)
    \/ \E r \in Conns : MessageHandled(r)

Shutdown ==
    \/ Sigint
    \/ Exit

Gate ==
    \/ \E r \in Conns : RouteVerify(r)
    \/ \E r \in Conns : RouteDeleteExpired(r)

\* the ledger after alex has logged in through client c1 at time 0 and the
\* code (1) has been exchanged for the access token 2 and the refresh token 3
SessionLedger ==
    LET row(t, ttl) == [token |-> t, clientId |-> "c1", userId |-> 1,
                        scopes |-> <<"read">>, expiresAt |-> ttl]
        rec(t, kind, grant, from, pair) ==
            [tok |-> t, kind |-> kind, clientId |-> "c1", userId |-> 1,
             scopes |-> <<"read">>, grant |-> grant, from |-> from, pair |-> pair]
    IN  /\ codes = <<>>
        /\ accessTokens = With(<<>>, 2, row(2, AccessTtl))
        /\ refreshTokens = With(<<>>, 3, row(3, RefreshTtl))
        /\ now = 0
        /\ ticks = 0
        /\ nextTok = 4
        /\ calls = 2
        /\ pc = [p \in Procs |-> "idle"]
        /\ call = [p \in Procs |-> Idle]
        /\ last = NoEvent
        /\ issued = {rec(1, "code", "login", 0, 0), rec(2, "access", "code", 1, 2),
                     rec(3, "refresh", "code", 1, 2)}
        /\ consumed = {[tok |-> 1, how |-> "redeemed"]}

SessionInit == SessionLedger /\ SessionsEmpty /\ StoreAtStart(<<>>)

\* the ledger after alex (user 1) and sarah (user 2) have each logged in
\* through client c1 at time 0 and exchanged their codes (1 and 4) for the
\* pairs 2, 3 and 5, 6
IdentityLedger ==
    LET row(t, u, ttl) == [token |-> t, clientId |-> "c1", userId |-> u,
                           scopes |-> <<"read">>, expiresAt |-> ttl]
        rec(t, u, kind, grant, from, pair) ==
            [tok |-> t, kind |-> kind, clientId |-> "c1", userId |-> u,
             scopes |-> <<"read">>, grant |-> grant, from |-> from, pair |-> pair]
    IN  /\ codes = <<>>
        /\ accessTokens = With(With(<<>>, 2, row(2, 1, AccessTtl)), 5, row(5, 2, AccessTtl))
        /\ refreshTokens = With(With(<<>>, 3, row(3, 1, RefreshTtl)), 6, row(6, 2, RefreshTtl))
        /\ now = 0
        /\ ticks = 0
        /\ nextTok = 7
        /\ calls = 4
        /\ pc = [p \in Procs |-> "idle"]
        /\ call = [p \in Procs |-> Idle]
        /\ last = NoEvent
        /\ issued = {rec(1, 1, "code", "login", 0, 0), rec(2, 1, "access", "code", 1, 2),
                     rec(3, 1, "refresh", "code", 1, 2),
                     rec(4, 2, "code", "login", 0, 0), rec(5, 2, "access", "code", 4, 5),
                     rec(6, 2, "refresh", "code", 4, 5)}
        /\ consumed = {[tok |-> 1, how |-> "redeemed"], [tok |-> 4, how |-> "redeemed"]}

IdentityInit == IdentityLedger /\ SessionsEmpty /\ StoreAtStart(<<>>)

\* the routes with the tokens of two users, the server running and the clock
\* standing, so that no token expires
IdentityNext ==
    \/ Observed
    \/ SseRoute
    \/ MessageRoute
    \/ \E r \in Conns : RouteVerify(r)

SessionNext ==
    \/ Tick
    \/ Observed
    \/ SseRoute
    \/ MessageRoute
    \/ Gate
    \/ Health
    \/ Shutdown

(* ------------------------- DatabaseClientsStore ----------------------- *)
\* SQL NULL in a row of oAuthClient
Null == "<null>"

\* the answer of getClient when it has no record: undefined
NotFound == [client_id |-> Undefined]

\* crypto.randomUUID() and crypto.randomBytes(32).toString('hex') of the n-th
\* registerClient call
RandomUUID(n) == "uuid-" \o ToString(n)
RandomSecret(n) == "hex-" \o ToString(n)

\* the create/update data of the upsert for a client record
ToRow(client) ==
    [client_id |-> client.client_id,
     client_secret |-> IF client.client_secret = Undefined THEN Null
                       ELSE client.client_secret,
     redirect_uris |-> client.redirect_uris,
     scope |-> IF client.scope = Undefined THEN Null ELSE client.scope,
     client_id_issued_at |-> IF client.client_id_issued_at = 0 THEN now
                             ELSE client.client_id_issued_at,
     client_secret_expires_at |-> client.client_secret_expires_at]

\* the client record initializeClients builds from a row
FromRow(row) ==
    [client_id |-> row.client_id,
     client_secret |-> IF row.client_secret \in {Null, EmptyStr} THEN Undefined
                       ELSE row.client_secret,
     redirect_uris |-> row.redirect_uris,
     scope |-> IF row.scope \in {Null, EmptyStr} THEN Undefined ELSE row.scope,
     client_id_issued_at |-> IF row.client_id_issued_at = 0 THEN now
                             ELSE row.client_id_issued_at,
     client_secret_expires_at |-> row.client_secret_expires_at]

\* the client metadata a registerClient call is given
ClientIdArgs == {Undefined, "c1"}
SecretArgs == {Undefined, "s1"}
RedirectUriArgs == {<<"https://app.example/cb">>, <<"https://evil.example/cb">>}
ClientArgs ==
    [client_id : ClientIdArgs, client_secret : SecretArgs,
     redirect_uris : RedirectUriArgs, scope : {Undefined, "read"},
     client_secret_expires_at : {0}]

\* the table when the process starts: empty, or with client c1 from an
\* earlier run
StoredC1 ==
    [client_id |-> "c1", client_secret |-> "s0",
     redirect_uris |-> <<"https://app.example/cb">>, scope |-> Null,
     client_id_issued_at |-> 0, client_secret_expires_at |-> 31536000]
TablesAtStart == {<<>>, With(<<>>, "c1", StoredC1)}

\* the provider's other tables, the clock's budget and the session table are
\* not touched by the client store
StoreFrame ==
    UNCHANGED <<codes, accessTokens, refreshTokens, now, ticks, nextTok, calls, pc,
                call, issued, consumed, sessionVars>>

\* a lookup that does not look at `initialized`
CachedUnguarded(clientId) ==
    IF clientId \in DOMAIN clients THEN clients[clientId] ELSE NotFound

\* getClient: undefined until the load has ended, then the cache's record
Cached(clientId) ==
    IF ~initialized THEN NotFound
    ELSE IF clientId \in DOMAIN clients THEN clients[clientId] ELSE NotFound

GetClient(clientId) ==
    /\ Quiet
    /\ last' = [op |-> "getClient", step |-> "getClient", phase |-> "returned",
                clientId |-> clientId, result |-> Cached(clientId)]
    /\ UNCHANGED clientVars
    /\ StoreFrame

\* registerClient: the record is completed, put in the cache and returned;
\* persistClientToDatabase is started and not awaited
RegisterClient(client) ==
    /\ Quiet
    /\ nextReg <= MaxRegs
    /\ LET clientInfo ==
            [client_id |-> OrElse(client.client_id, RandomUUID(nextReg)),
             client_secret |-> OrElse(client.client_secret, RandomSecret(nextReg)),
             redirect_uris |-> client.redirect_uris,
             scope |-> client.scope,
             client_id_issued_at |-> now,
             client_secret_expires_at |->
                IF client.client_secret_expires_at # 0
                THEN client.client_secret_expires_at ELSE now + 86400 * 365]
           id == clientInfo.client_id
       IN  /\ clients' = With(clients, id, clientInfo)
           /\ writes' = writes \cup {[reg |-> nextReg, client |-> clientInfo]}
           /\ registered' = With(registered, id, [reg |-> nextReg, client |-> clientInfo])
           /\ last' = [op |-> "registerClient", step |-> "registerClient",
                       phase |-> "returned", clientId |-> id, result |-> clientInfo]
    /\ nextReg' = nextReg + 1
    /\ UNCHANGED <<initialized, oAuthClient, load>>
    /\ StoreFrame

\* the upsert of a write takes effect: the row is created, or the row of the
\* client_id is overwritten
PersistDone(w) ==
    /\ Quiet
    /\ w \in writes
    /\ oAuthClient' = With(oAuthClient, w.client.client_id, ToRow(w.client))
    /\ writes' = writes \ {w}
    /\ UNCHANGED <<clients, initialized, load, registered, nextReg, last>>
    /\ StoreFrame

\* the upsert of a write rejects: the catch of registerClient deletes the
\* cache's entry of the client_id
PersistFailed(w) ==
    /\ Quiet
    /\ w \in writes
    /\ clients' = Without(clients, w.client.client_id)
    /\ writes' = writes \ {w}
    /\ last' = [op |-> "persistClientToDatabase", step |-> "persistFailed",
                phase |-> "threw", clientId |-> w.client.client_id, reg |-> w.reg]
    /\ UNCHANGED <<initialized, oAuthClient, load, registered, nextReg>>
    /\ StoreFrame

\* findMany of initializeClients reads the table
LoadFindMany ==
    /\ Quiet
    /\ load.pc = "findMany"
    /\ load' = [pc |-> "loaded", rows |-> oAuthClient]
    /\ UNCHANGED <<clients, initialized, oAuthClient, writes, registered, nextReg, last>>
    /\ StoreFrame

\* findMany has resolved: every row is put in the cache, then initialized
LoadApplied ==
    /\ Quiet
    /\ load.pc = "loaded"
    /\ clients' = [id \in DOMAIN clients \cup DOMAIN load.rows |->
                    IF id \in DOMAIN load.rows THEN FromRow(load.rows[id])
                    ELSE clients[id]]
    /\ initialized' = TRUE
    /\ load' = [pc |-> "done", rows |-> <<>>]
    /\ UNCHANGED <<oAuthClient, writes, registered, nextReg, last>>
    /\ StoreFrame

\* findMany rejects and the store is left uninitialized
LoadFailedUnmarked ==
    /\ Quiet
    /\ load.pc = "findMany"
    /\ load' = [pc |-> "failed", rows |-> <<>>]
    /\ UNCHANGED <<clients, initialized, oAuthClient, writes, registered, nextReg, last>>
    /\ StoreFrame

\* findMany rejects: the catch sets initialized, the cache is left as it is
LoadFailed ==
    /\ Quiet
    /\ load.pc = "findMany"
    /\ initialized' = TRUE
    /\ load' = [pc |-> "failed", rows |-> <<>>]
    /\ UNCHANGED <<clients, oAuthClient, writes, registered, nextReg, last>>
    /\ StoreFrame

\* initialize() called again after the constructor's call has ended:
\* initializeClients returns at once when initialized, and starts a load
\* otherwise
Initialize ==
    /\ Quiet
    /\ load.pc \in {"done", "failed"}
    /\ load' = IF initialized THEN load ELSE [pc |-> "findMany", rows |-> <<>>]
    /\ last' = [op |-> "initialize", step |-> "initialize", phase |-> "returned",
                read |-> ~initialized]
    /\ UNCHANGED <<clients, initialized, oAuthClient, writes, registered, nextReg>>
    /\ StoreFrame

InitializeClients ==
    \/ LoadFindMany
    \/ LoadApplied
    \/ LoadFailed
    \/ Initialize

PersistClientToDatabase ==
    \/ \E w \in writes : PersistDone(w)
    \/ \E w \in writes : PersistFailed(w)

ClientInit ==
    /\ SessionsEmpty
    /\ \E db \in TablesAtStart : StoreAtStart(db)
    /\ codes = <<>>
    /\ accessTokens = <<>>
    /\ refreshTokens = <<>>
    /\ now = 0
    /\ ticks = 0
    /\ nextTok = 1
    /\ calls = 0
    /\ pc = [p \in Procs |-> "idle"]
    /\ call = [p \in Procs |-> Idle]
    /\ last = NoEvent
    /\ issued = {}
    /\ consumed = {}

ClientNext ==
    \/ Observed
    \/ InitializeClients
    \/ \E client \in ClientArgs : RegisterClient(client)
    \/ PersistClientToDatabase
    \/ \E clientId \in {"c1", RandomUUID(1)} : GetClient(clientId)

(* --------------------------- POST /auth/login ------------------------- *)
\* scopes.split(' ').filter(Boolean) for the scopes values submitted
SplitScopes(s) ==
    IF s = "read write" THEN <<"read", "write">>
    ELSE IF s = "read" THEN <<"read">>
    ELSE <<>>

\* new URL(redirect_uri) throws for a string that is no absolute URL
ValidUrl(u) == u \in {"https://app.example/cb"}

\* the fields of req.body a login submission may carry
LoginBodies ==
    [user_id : {Undefined, "1", "1x", "abc"},
     email : {Undefined, "alex@zenstack.dev"},
     password : {Undefined, "password123", "wrong"},
     client_id : {"c1"},
     state : {Undefined, "xyz"},
     code_challenge : {Undefined, Sha256B64Url("v1")},
     redirect_uri : {"https://app.example/cb", "/callback"},
     scopes : {Undefined, "read write"}]

\* The answers of authProvider.handleLogin when its `email` argument is the
\* number parseInt gave: the lookup by email is rejected by the client
\* ('Login failed'), or matches no row ('User not found'); no user's email is
\* a number.
LoginAnswers(userId, password) ==
    IF userId.type = "number"
    THEN {[success |-> FALSE, error |-> "User not found"],
          [success |-> FALSE, error |-> "Login failed"]}
    ELSE {[success |-> LoginError(userId.value, password) = "",
           error |-> LoginError(userId.value, password)]}

\* no Location header
NoLocation == [uri |-> Undefined, code |-> 0, state |-> Undefined]

\* redirect_uri with the query parameters code and, when state is truthy, state
RedirectUrl(redirectUri, authCode, state) ==
    [uri |-> redirectUri, code |-> authCode,
     state |-> IF Truthy(state) THEN state ELSE Undefined]

LoginResponse(body, status, location, text) ==
    [op |-> "POST /auth/login", step |-> "handleLogin", phase |-> "returned",
     body |-> body, status |-> status, location |-> location, text |-> text]

\* the route handler: parameter check, handleLogin of the provider with
\* parseInt(user_id) as its first argument, then redirect or error page
LoginRoute(body) ==
    /\ Quiet
    /\ IF \/ ~Truthy(body.user_id) \/ ~Truthy(body.password) \/ ~Truthy(body.client_id)
          \/ ~Truthy(body.code_challenge) \/ ~Truthy(body.redirect_uri)
       THEN /\ last' = LoginResponse(body, 400, NoLocation, "Missing required parameters")
            /\ UNCHANGED <<codes, nextTok, issued>>
       ELSE \E result \in LoginAnswers(ParseInt(body.user_id), body.password) :
            IF result.success
            THEN /\ nextTok <= MaxTok
                 /\ codes' = With(codes, nextTok,
                        [code |-> nextTok, clientId |-> body.client_id,
                         userId |-> UserTable[ParseInt(body.user_id).value].id,
                         codeChallenge |-> body.code_challenge,
                         redirectUri |-> body.redirect_uri,
                         expiresAt |-> now + CodeTtl,
                         scopes |-> SplitScopes(body.scopes)])
                 /\ nextTok' = nextTok + 1
                 /\ issued' = issued \cup
                        {[tok |-> nextTok, kind |-> "code", clientId |-> body.client_id,
                          userId |-> UserTable[ParseInt(body.user_id).value].id,
                          scopes |-> SplitScopes(body.scopes),
                          grant |-> "login", from |-> 0, pair |-> 0]}
                 /\ last' = IF ValidUrl(body.redirect_uri)
                            THEN LoginResponse(body, 302,
                                    RedirectUrl(body.redirect_uri, nextTok, body.state), "")
                            ELSE LoginResponse(body, 500, NoLocation,
                                    "Internal server error")
            ELSE /\ last' = LoginResponse(body, 400, NoLocation, result.error)
                 /\ UNCHANGED <<codes, nextTok, issued>>
    /\ UNCHANGED <<accessTokens, refreshTokens, now, ticks, calls, pc, call, consumed>>
    /\ UNCHANGED <<sessionVars, clientVars>>

LoginSubmission == \E body \in LoginBodies : LoginRoute(body)

LoginNext ==
    \/ Observed
    \/ LoginSubmission

(* ----------------------- handleLogin over the registry --------------- *)
\* a process whose table holds client c1, registered with one redirect URI
RegistryInit == ClientInit /\ oAuthClient = With(<<>>, "c1", StoredC1)

\* the initial load of the client store, and logins
RegistryNext ==
    \/ Observed
    \/ InitializeClients
    \/ Login

(* ------------------------------ the system ---------------------------- *)
Next ==
    \/ Tick
    \/ Observed
    \/ Login
    \/ ChallengeForAuthorizationCode
    \/ ExchangeAuthorizationCode
    \/ ExchangeRefreshToken
    \/ FlexibleAuthMiddleware
    \/ RevokeToken


(* ------------------------------- claims ------------------------------- *)
Redeemed == ConsumedBy("redeemed")
Rotated == ConsumedBy("rotated")
Revoked == ConsumedBy("revoked")

\* the rows the history says were created from artifact t under a grant
MintedFrom(grant, kind, t) ==
    {m \in issued : m.grant = grant /\ m.kind = kind /\ m.from = t}

\* C1: once exchangeAuthorizationCode has returned a token pair for a code, the
\* code is not in the store, and every exchangeAuthorizationCode or
\* challengeForAuthorizationCode call that reads the store after that with the
\* same code throws 'Invalid authorization code'.
C1_CodeSingleUse ==
    /\ Redeemed \cap DOMAIN codes = {}
    /\ (/\ last.step \in {"xcFind", "chFind"}
        /\ last.tok \in Redeemed)
       => (last.phase = "threw" /\ last.error = "Invalid authorization code")

\* a second attempt with a code that was redeemed has just been answered
C1_Witness ==
    /\ last.step = "xcFind"
    /\ last.tok \in Redeemed
    /\ last.phase = "threw"

\* C2: for every authorization code at most one access token and at most one
\* refresh token is ever created, however the calls presenting it interleave.
C2_OnePairPerCode ==
    \A c \in IssuedOf("code") :
        /\ Cardinality(MintedFrom("code", "access", c)) <= 1
        /\ Cardinality(MintedFrom("code", "refresh", c)) <= 1

\* C3: once exchangeRefreshToken has returned for refresh token R, R is not in
\* the store, every later exchangeRefreshToken with R throws, and the refresh
\* token it returned differs from R and is stored for R's client and R's user.
C3_RefreshRotates ==
    /\ Rotated \cap DOMAIN refreshTokens = {}
    /\ (last.step = "rfFind" /\ last.tok \in Rotated)
       => (last.phase = "threw" /\ last.error = "Invalid refresh token")
    /\ (last.step = "rfCreateNew")
       => /\ last.phase = "returned"
          /\ last.refresh_token # last.tok
          /\ last.refresh_token \in DOMAIN refreshTokens
          /\ \E old \in issued :
                /\ old.kind = "refresh"
                /\ old.tok = last.tok
                /\ refreshTokens[last.refresh_token].clientId = old.clientId
                /\ refreshTokens[last.refresh_token].userId = old.userId

\* a refresh has just returned its rotated pair
C3_Witness ==
    /\ last.step = "rfCreateNew"
    /\ last.tok \in Rotated
    /\ last.refresh_token \in DOMAIN refreshTokens

\* C4: for every refresh token at most one exchangeRefreshToken call creates
\* tokens: no access token or refresh token is stored for a call that loses
\* the race.
C4_OneRotationPerRefreshToken ==
    \A r \in IssuedOf("refresh") :
        /\ Cardinality(MintedFrom("refresh", "access", r)) <= 1
        /\ Cardinality(MintedFrom("refresh", "refresh", r)) <= 1

\* C5: when exchangeAuthorizationCode is given a code verifier, and the code is
\* stored for the calling client, unexpired, and the redirect URI check
\* passes, the call goes on to issue tokens exactly when the S256 challenge of
\* the verifier equals the stored code_challenge; otherwise it throws 'Invalid
\* code verifier' at once, before anything is generated or stored.
C5_PkceBinding ==
    (/\ last.step = "xcFind"
     /\ last.verifier \notin {Undefined, EmptyStr}
     /\ last.tok \in DOMAIN codes
     /\ codes[last.tok].clientId = last.client
     /\ ~(now > codes[last.tok].expiresAt)
     /\ last.redirect \in {Undefined, codes[last.tok].redirectUri})
    => IF Sha256B64Url(last.verifier) = codes[last.tok].codeChallenge
       THEN last.phase = "passed"
       ELSE last.phase = "threw" /\ last.error = "Invalid code verifier"

\* a verifier that does not hash to the stored challenge has just been refused
C5_Witness ==
    /\ last.step = "xcFind"
    /\ last.verifier \in Verifiers
    /\ last.error = "Invalid code verifier"
    /\ last.tok \in DOMAIN codes

\* the request was refused: the call threw, or the gate answered 401 without
\* calling next()
Refused(e) ==
    \/ e.phase = "threw"
    \/ e.op = "getFlexibleAuthMiddleware" /\ e.phase = "returned"
       /\ e.status = 401 /\ ~e.next

\* C6: a call that reads a code, a refresh token or an access token whose
\* expiry is earlier than the clock does not go on to issue or return anything:
\* it is refused at once or goes on to delete the row, and a call that went on
\* to delete an expired row is refused.
C6_ExpiredRejected ==
    /\ (/\ last.step \in {"xcFind", "chFind"}
        /\ last.tok \in DOMAIN codes
        /\ codes[last.tok].expiresAt < now)
       => (last.phase = "expired" \/ Refused(last))
    /\ (/\ last.step = "rfFind"
        /\ last.tok \in DOMAIN refreshTokens
        /\ refreshTokens[last.tok].expiresAt < now)
       => (last.phase = "expired" \/ Refused(last))
    /\ (/\ last.step = "gateVerify"
        /\ last.tok \in DOMAIN accessTokens
        /\ accessTokens[last.tok].expiresAt < now)
       => (last.phase = "expired" \/ Refused(last))
    /\ (last.step \in {"xcDeleteExpired", "chDeleteExpired", "rfDeleteExpired",
                       "gateDeleteExpired"})
       => Refused(last)
    /\ (last.phase = "expired")
       => \E p \in Procs :
            /\ pc[p] \in {"xcDeleteExpired", "chDeleteExpired", "rfDeleteExpired",
                          "gateDeleteExpired"}
            /\ call[p].op = last.op
            /\ call[p].tok = last.tok

\* an expired access token has just been refused by the gate
C6_Witness ==
    /\ last.step = "gateDeleteExpired"
    /\ last.status = 401
    /\ now > AccessTtl

\* C7: the gate calls next() only for a token that the request carries, that is
\* in the access-token store and that is unexpired when it is verified, and
\* req.auth is then that row's user id, client id and scopes; every other
\* request is answered 401, next() is not called and req.auth is not set.
C7_GateSound ==
    (last.op = "getFlexibleAuthMiddleware" /\ last.phase = "returned")
    => IF last.next
       THEN /\ last.tok \in DOMAIN accessTokens
            /\ \/ last.header.present /\ last.header.value = last.tok
               \/ last.query.present /\ last.query.value = last.tok
            /\ ~(now > accessTokens[last.tok].expiresAt)
            /\ last.auth.userId = accessTokens[last.tok].userId
            /\ last.auth.clientId = accessTokens[last.tok].clientId
            /\ last.auth.scopes = accessTokens[last.tok].scopes
       ELSE /\ last.status = 401
            /\ last.auth = NoAuth

\* the gate has just let a request through
C7_Witness ==
    /\ last.op = "getFlexibleAuthMiddleware"
    /\ last.phase = "returned"
    /\ last.next
    /\ last.auth.scopes # <<>>

\* C8: when exchangeAuthorizationCode or exchangeRefreshToken throws, no access
\* token and no refresh token generated by that call is in the store.
C8_AllOrNothing ==
    (/\ last.op \in {"exchangeAuthorizationCode", "exchangeRefreshToken"}
     /\ last.phase = "threw"
     /\ last.step \in {"xcDeleteCode", "rfDeleteOld"})
    => /\ last.accessToken \notin DOMAIN accessTokens
       /\ last.refreshToken \notin DOMAIN refreshTokens

\* the client's row for the token is in neither token table
HeldNowhere(token, client) ==
    /\ ~(token \in DOMAIN accessTokens /\ accessTokens[token].clientId = client)
    /\ ~(token \in DOMAIN refreshTokens /\ refreshTokens[token].clientId = client)
HeldNowhereAfter(token, client) ==
    /\ ~(token \in DOMAIN accessTokens' /\ accessTokens'[token].clientId = client)
    /\ ~(token \in DOMAIN refreshTokens' /\ refreshTokens'[token].clientId = client)

\* request p takes a step of revokeToken at one of its two reads
RevokeReads(p) ==
    \/ pc[p] = "idle" /\ pc'[p] # "idle" /\ call'[p].op = "revokeToken"
    \/ pc[p] = "rvFindRefresh" /\ pc'[p] # "rvFindRefresh"

\* C9: a revokeToken read that finds the token in neither table, or only with
\* another client's id, changes no table and leads to the next read or to a
\* normal return, the outcome of a revocation that deleted a row; and a token
\* that a client holds in neither table is never held by it later, so a call
\* that starts that way ends that way.
C9_RevokeUnknownIsNoOp ==
    [][/\ \A p \in Procs :
            LET c == IF pc[p] = "idle" THEN call'[p] ELSE call[p]
            IN  (RevokeReads(p) /\ HeldNowhere(c.tok, c.client))
                => /\ codes' = codes
                   /\ accessTokens' = accessTokens
                   /\ refreshTokens' = refreshTokens
                   /\ pc'[p] \in {"rvFindRefresh", "idle"}
                   /\ pc'[p] = "idle"
                      => /\ last'.op = "revokeToken"
                         /\ last'.tok = c.tok
                         /\ last'.phase = "returned"
                         /\ last'.error = ""
       /\ \A t \in IssuedOf("access") \cup IssuedOf("refresh") \cup {JunkTok},
             client \in Clients :
            HeldNowhere(t, client) => HeldNowhereAfter(t, client)
      ]_vars

\* a revocation of another client's stored token has just returned
C9_Witness ==
    /\ last.op = "revokeToken"
    /\ last.step = "rvFindRefresh"
    /\ last.phase = "returned"
    /\ last.tok \in DOMAIN accessTokens \cup DOMAIN refreshTokens

\* request p takes the delete step of revokeToken and returns
RevokeDeletes(p) ==
    /\ pc[p] \in {"rvDeleteAccess", "rvDeleteRefresh"}
    /\ pc'[p] = "idle"
    /\ last'.phase = "returned"

\* C10: a revokeToken call by the owning client that returns after its delete
\* has removed exactly the row of the given token from the table it was read
\* from and changed nothing else; when revokeToken returns, the client holds
\* the token in neither table; a revoked token is in neither table again, and
\* every later verifyAccessToken or exchangeRefreshToken with it is refused.
C10_RevokeDeletesExactlyOne ==
    [][/\ \A p \in Procs :
            RevokeDeletes(p)
            => /\ codes' = codes
               /\ call[p].tok \in Revoked'
               /\ IF pc[p] = "rvDeleteAccess"
                  THEN /\ accessTokens[call[p].tok].clientId = call[p].client
                       /\ DOMAIN accessTokens' = DOMAIN accessTokens \ {call[p].tok}
                       /\ \A t \in DOMAIN accessTokens' :
                            accessTokens'[t] = accessTokens[t]
                       /\ refreshTokens' = refreshTokens
                  ELSE /\ refreshTokens[call[p].tok].clientId = call[p].client
                       /\ DOMAIN refreshTokens' = DOMAIN refreshTokens \ {call[p].tok}
                       /\ \A t \in DOMAIN refreshTokens' :
                            refreshTokens'[t] = refreshTokens[t]
                       /\ accessTokens' = accessTokens
       /\ Revoked' \cap (DOMAIN accessTokens' \cup DOMAIN refreshTokens') = {}
       /\ (last'.op = "revokeToken" /\ last'.phase = "returned")
          => HeldNowhereAfter(last'.tok, last'.client)
       /\ (last'.step \in {"gateVerify", "rfFind"} /\ last'.tok \in Revoked')
          => Refused(last')
      ]_vars

\* an access token was revoked, its refresh token is still stored, and the
\* gate has just refused the revoked token
C10_Witness ==
    /\ last.step = "gateVerify"
    /\ last.tok \in Revoked
    /\ \E m \in issued :
        /\ m.kind = "refresh"
        /\ m.pair = last.tok
        /\ m.tok \in DOMAIN refreshTokens

\* C11: exchangeAuthorizationCode with a code stored for the calling client,
\* unexpired, with the verifier of its challenge and with redirectUri omitted
\* throws.
C11_OmittedRedirectRefused ==
    (/\ last.step = "xcFind"
     /\ last.redirect = Undefined
     /\ last.tok \in DOMAIN codes
     /\ codes[last.tok].clientId = last.client
     /\ ~(now > codes[last.tok].expiresAt)
     /\ last.verifier \in Verifiers
     /\ Sha256B64Url(last.verifier) = codes[last.tok].codeChallenge)
    => last.phase = "threw"

\* C12: an exchangeAuthorizationCode call whose code is not in the store, or is
\* stored with another client's id, throws 'Invalid authorization code'; one
\* whose non-empty redirect URI differs from the stored one throws or goes on
\* to delete the expired code (and then throws); on each of these the call
\* generates no token, creates no row and does not go on to create one.
C12_CodeBoundToClientAndRedirect ==
    [][(last'.step = "xcFind")
       => LET e == last'
              unknown == e.tok \notin DOMAIN codes
              foreign == ~unknown /\ codes[e.tok].clientId # e.client
              redirected == /\ ~unknown
                            /\ e.redirect \notin {Undefined, EmptyStr}
                            /\ codes[e.tok].redirectUri # e.redirect
          IN  /\ (unknown \/ foreign)
                 => (e.phase = "threw" /\ e.error = "Invalid authorization code")
              /\ (redirected /\ ~foreign)
                 => \/ e.phase = "threw" /\ e.error = "Invalid redirect URI"
                    \/ e.phase = "expired" /\ now > codes[e.tok].expiresAt
              /\ (unknown \/ foreign \/ redirected)
                 => /\ nextTok' = nextTok
                    /\ accessTokens' = accessTokens
                    /\ refreshTokens' = refreshTokens
                    /\ issued' = issued
                    /\ \A p \in Procs :
                        pc'[p] \in {"xcCreateAccess", "xcCreateRefresh", "xcDeleteCode"}
                        => pc'[p] = pc[p]
      ]_vars

\* an exchange with another redirect URI than the code's has just been refused
C12_Witness ==
    /\ last.step = "xcFind"
    /\ last.tok \in DOMAIN codes
    /\ codes[last.tok].clientId = last.client
    /\ last.redirect = "https://evil.example/cb"
    /\ last.error = "Invalid redirect URI"

\* the history entry of the code a call presented
CodeRecord(t) == CHOOSE m \in issued : m.kind = "code" /\ m.tok = t

\* C13: an exchangeAuthorizationCode call that returns has stored one access
\* token and one refresh token, each a new key of its table with the calling
\* client's id and the user id and scopes of the code, has created nothing
\* else, and returns those two values with token_type Bearer, expires_in 3600
\* and scope the code's scopes joined by spaces.
C13_ExchangeStoresAndReturnsPair ==
    [][\A p \in Procs :
        LET c == call[p]
        IN  /\ (pc[p] = "xcCreateAccess" /\ pc'[p] # pc[p])
               => /\ c.accessToken \notin DOMAIN accessTokens
                  /\ DOMAIN accessTokens' = DOMAIN accessTokens \cup {c.accessToken}
                  /\ \A t \in DOMAIN accessTokens : accessTokens'[t] = accessTokens[t]
                  /\ accessTokens'[c.accessToken].clientId = c.client
                  /\ accessTokens'[c.accessToken].userId = CodeRecord(c.tok).userId
                  /\ accessTokens'[c.accessToken].scopes = CodeRecord(c.tok).scopes
                  /\ refreshTokens' = refreshTokens
            /\ (pc[p] = "xcCreateRefresh" /\ pc'[p] # pc[p])
               => /\ c.refreshToken \notin DOMAIN refreshTokens
                  /\ DOMAIN refreshTokens' = DOMAIN refreshTokens \cup {c.refreshToken}
                  /\ \A t \in DOMAIN refreshTokens : refreshTokens'[t] = refreshTokens[t]
                  /\ refreshTokens'[c.refreshToken].clientId = c.client
                  /\ refreshTokens'[c.refreshToken].userId = CodeRecord(c.tok).userId
                  /\ refreshTokens'[c.refreshToken].scopes = CodeRecord(c.tok).scopes
                  /\ accessTokens' = accessTokens
            /\ (pc[p] = "xcDeleteCode" /\ pc'[p] # pc[p] /\ last'.phase = "returned")
               => /\ accessTokens' = accessTokens
                  /\ refreshTokens' = refreshTokens
                  /\ {m.tok : m \in {i \in issued' : i.grant = "code" /\ i.kind = "access"
                                                    /\ i.pair = c.accessToken}}
                     = {c.accessToken}
                  /\ {m.tok : m \in {i \in issued' : i.grant = "code" /\ i.kind = "refresh"
                                                    /\ i.pair = c.accessToken}}
                     = {c.refreshToken}
                  /\ c.accessToken # c.refreshToken
                  /\ last'.access_token = c.accessToken
                  /\ last'.refresh_token = c.refreshToken
                  /\ last'.token_type = "Bearer"
                  /\ last'.expires_in = 3600
                  /\ last'.scope = Join(CodeRecord(c.tok).scopes)
      ]_vars

\* an exchange has just returned its pair, and both rows are stored
C13_Witness ==
    /\ last.step = "xcDeleteCode"
    /\ last.phase = "returned"
    /\ last.access_token \in DOMAIN accessTokens
    /\ last.refresh_token \in DOMAIN refreshTokens
    /\ last.scope = "read"

\* C14: an exchangeRefreshToken call that returns has issued its pair with the
\* requested scopes when a non-empty list was given, and with the presented
\* refresh token's scopes when none or an empty list was given.
C14_ScopesFallBackToOriginal ==
    (last.step = "rfCreateNew" /\ last.phase = "returned")
    => LET want == IF last.scopes.given /\ last.scopes.list # <<>>
                   THEN last.scopes.list
                   ELSE last.tokenData.scopes
       IN  /\ refreshTokens[last.refresh_token].scopes = want
           /\ \A m \in issued :
                (m.grant = "refresh" /\ m.pair = last.access_token) => m.scopes = want

\* C15: a request with no Bearer value in its Authorization header and no
\* access_token query parameter is answered 401 'Missing access token' at the
\* step that extracts the token: verifyAccessToken is not called, next() is not
\* called and no store operation is pending for it.
C15_NoTokenNoLedgerCall ==
    (/\ last.op = "getFlexibleAuthMiddleware"
     /\ last.step \in {"gateNoToken", "gateVerify"}
     /\ ~(last.header.present /\ last.header.scheme = "Bearer"
          /\ last.header.value # EmptyTok)
     /\ ~last.query.present)
    => /\ last.step = "gateNoToken"
       /\ last.phase = "returned"
       /\ last.status = 401
       /\ last.error = "Missing access token"
       /\ ~last.next
       /\ last.auth = NoAuth

\* a request whose header carries a stored token under another scheme, and no
\* query parameter, has just been answered
C15_Witness ==
    /\ last.op = "getFlexibleAuthMiddleware"
    /\ last.step = "gateNoToken"
    /\ last.header.present
    /\ last.header.scheme = "Basic"
    /\ last.header.value \in DOMAIN accessTokens
    /\ ~last.query.present

\* C16: when the request has a non-empty Bearer header value and an
\* access_token query parameter, the token verified is the header's: the gate
\* calls next() only when the header's token is stored and unexpired, req.auth
\* is then the header token's row, and otherwise the answer is 401 whatever
\* the query token is.
C16_HeaderTakesPrecedence ==
    (/\ last.op = "getFlexibleAuthMiddleware"
     /\ last.step \in {"gateNoToken", "gateVerify"}
     /\ last.header.present /\ last.header.scheme = "Bearer"
     /\ last.header.value # EmptyTok
     /\ last.query.present)
    => /\ last.step = "gateVerify"
       /\ last.tok = last.header.value
       /\ (last.phase = "returned" /\ last.next)
          => /\ last.header.value \in DOMAIN accessTokens
             /\ last.auth.token = last.header.value
             /\ last.auth.userId = accessTokens[last.header.value].userId
             /\ last.auth.clientId = accessTokens[last.header.value].clientId
       /\ (last.header.value \notin DOMAIN accessTokens)
          => (last.phase = "returned" /\ last.status = 401 /\ ~last.next)
       /\ (last.phase = "expired")
          => now > accessTokens[last.header.value].expiresAt

\* a request with an unknown header token and a stored, unexpired query token
\* has just been refused
C16_Witness ==
    /\ last.op = "getFlexibleAuthMiddleware"
    /\ last.step = "gateVerify"
    /\ last.header.present
    /\ last.header.value \notin DOMAIN accessTokens
    /\ last.query.present
    /\ last.query.value \in DOMAIN accessTokens
    /\ ~(now > accessTokens[last.query.value].expiresAt)
    /\ last.status = 401

\* C17: a step at which the gate answers 401 changes no table, and no identity
\* is attached to the request.
C17_GateFailureLeavesStore ==
    [][(/\ last'.op = "getFlexibleAuthMiddleware"
        /\ last'.phase = "returned"
        /\ last # last'
        /\ last'.status = 401)
       => /\ accessTokens' = accessTokens
          /\ refreshTokens' = refreshTokens
          /\ codes' = codes
          /\ last'.auth = NoAuth
      ]_vars

\* the request carries no Bearer header value and no access_token parameter
NoBearer(e) ==
    /\ ~(e.header.present /\ e.header.scheme = "Bearer" /\ e.header.value # EmptyTok)
    /\ ~e.query.present

\* C18: a request to GET /sse with no bearer token is answered 401 with the
\* WWW-Authenticate: Bearer header that names the discovery document.
C18_NoTokenGetsChallenge ==
    (/\ last.op = "GET /sse"
     /\ last.step = "routeRequest"
     /\ NoBearer(last))
    => /\ last.phase = "returned"
       /\ last.status = 401
       /\ last.wwwAuthenticate = WwwAuthenticate

\* the connections on which a session was created, and those of them still open
Sessions == {r \in Conns : conns[r].route = "GET /sse" /\ conns[r].sessionId # NoSession}
OpenSessions == {r \in Sessions : conns[r].open}

\* C19: the sessionId of a session whose connection is open is in the session
\* table with the transport created for it, that of a session whose connection
\* has closed is not, and a message POST /message lets through is handed to a
\* transport exactly when its sessionId is that of a session with an open
\* connection, and then to that session's transport.
C19_SessionResolvesWhileOpen ==
    /\ \A r \in Sessions :
        IF conns[r].open
        THEN /\ conns[r].sessionId \in DOMAIN activeConnections
             /\ activeConnections[conns[r].sessionId].sessionId = conns[r].sessionId
             /\ activeConnections[conns[r].sessionId].res = r
        ELSE conns[r].sessionId \notin DOMAIN activeConnections
    /\ (/\ last.op = "POST /message"
        /\ last.step = "routeVerify"
        /\ last.phase = "returned"
        /\ last.next)
       => /\ last.routed <=> \E r \in OpenSessions : conns[r].sessionId = last.sessionId
          /\ last.routed => last.transport.sessionId = last.sessionId

\* C20: the session table has no entry whose connection has closed, and GET
\* /health reports the number of sessions whose connection is open.
C20_NoEntryForClosedConnection ==
    /\ \A s \in DOMAIN activeConnections : conns[activeConnections[s].res].open
    /\ (last.op = "GET /health")
       => last.activeConnections = Cardinality(OpenSessions)

\* C21: a POST /message request that passed the gate and whose sessionId is
\* not in the session table has been sent an error response when its handler
\* returns.
C21_UnknownSessionAnswered ==
    (/\ last.op = "POST /message"
     /\ last.step = "routeVerify"
     /\ last.phase = "returned"
     /\ last.next
     /\ last.sessionId \notin DOMAIN activeConnections)
    => last.status >= 400

\* C22: messages for one session are handed to its transport in the order
\* their requests came, and no two of them are being handled by the transport
\* at the same time.
C22_SessionMessagesOrdered ==
    /\ \A i, j \in DOMAIN handed :
        (i < j /\ handed[i].sessionId = handed[j].sessionId)
        => handed[i].conn < handed[j].conn
    /\ \A r, q \in Conns :
        (/\ r # q
         /\ conns[r].pc = "msgHandling"
         /\ conns[q].pc = "msgHandling")
        => conns[r].sessionId # conns[q].sessionId

\* the server has nothing left to run: no handler is suspended at an await
Quiescent ==
    /\ Quiet
    /\ \A r \in Conns : conns[r].pc \in {"unused", "done", "streaming"}

\* C23: the process exits only with every session's connection closed, and
\* after SIGINT, once the server has nothing left to run, no connection is
\* open, so that the callback of server.close() runs and the process exits.
C23_DrainReachesExit ==
    /\ (shutdown = "exited") => \A r \in Conns : ~conns[r].open
    /\ (shutdown = "draining" /\ Quiescent) => \A r \in Conns : ~conns[r].open

\* C24: getClient called before the initial load has ended answers
\* not-found in the same step, for every client id, also one the table holds.
C24_LookupBeforeLoadNotFound ==
    (last.op = "getClient" /\ ~initialized) => last.result = NotFound

C24_Witness ==
    /\ last.op = "getClient"
    /\ ~initialized
    /\ load.pc # "done"
    /\ last.clientId \in DOMAIN oAuthClient
    /\ last.result = NotFound

\* the write of the latest registration of a client_id is still in flight
WritePending(clientId) ==
    /\ clientId \in DOMAIN registered
    /\ \E w \in writes : w.reg = registered[clientId].reg

\* C25: once registerClient has returned and while its write is in flight,
\* getClient of that client_id returns the record registerClient returned
\* (stated after the initial load, where getClient reads the cache).
C25_ReadAfterRegister ==
    (last.op = "getClient" /\ initialized /\ WritePending(last.clientId))
        => last.result = registered[last.clientId].client

\* the cache and the table agree on a client_id
Consistent(clientId) ==
    /\ clientId \in DOMAIN clients <=> clientId \in DOMAIN oAuthClient
    /\ clientId \in DOMAIN clients
        => clients[clientId] = FromRow(oAuthClient[clientId])

\* C26: when a write has failed and the cache entry is rolled back, and no
\* other write of that client_id is in flight, the cache holds a record for
\* the client_id exactly when the table holds that record.
C26_RollbackConsistentWithStorage ==
    (/\ last.step = "persistFailed"
     /\ load.pc = "done"
     /\ \A w \in writes : w.client.client_id # last.clientId)
        => Consistent(last.clientId)

\* the fields of a client record, or of a row, that a registration sets
SameClient(a, b) ==
    /\ a.redirect_uris = b.redirect_uris
    /\ FromRow(a).client_secret = FromRow(b).client_secret
    /\ FromRow(a).scope = FromRow(b).scope

\* C27: no registerClient call replaces or changes the secret, redirect URIs
\* or scope held for a client_id that is already registered or loaded, in the
\* cache or in the table.
C27_ClientRecordNeverReplaced ==
    [][/\ nextReg' # nextReg
          => \A id \in DOMAIN clients \cap DOMAIN clients' :
                SameClient(clients[id], clients'[id])
       /\ \A id \in DOMAIN oAuthClient \cap DOMAIN oAuthClient' :
                SameClient(oAuthClient[id], oAuthClient'[id])]_vars

\* C28: a failed login does not tell why it failed: the error returned for
\* an unknown identity is the error returned for any known identity with a
\* wrong password.
C28_LoginFailureUniform ==
    (/\ last.op = "handleLogin" /\ last.step = "handleLogin"
     /\ ~last.success
     /\ last.email \notin DOMAIN UserTable)
        => \A e \in DOMAIN UserTable, pw \in Passwords :
              ~BcryptCompare(pw, UserTable[e].password)
                  => last.error = LoginError(e, pw)

\* the handleLogin step that has just returned
LoginReturns == last' # last /\ last'.op = "handleLogin" /\ last'.step = "handleLogin"

\* C29: handleLogin stores a code only when the user exists and the password
\* verifies against the user's hash; the stored code carries the user's id
\* and the submitted client id, challenge, redirect URI and scopes; a failed
\* login leaves the code store unchanged; nothing else creates a code.
C29_CodeOnlyOnVerifiedLogin ==
    [][/\ LoginReturns /\ last'.success
          => /\ last'.email \in DOMAIN UserTable
             /\ UserTable[last'.email].password = BcryptHash(last'.password)
             /\ last'.authCode \notin DOMAIN codes
             /\ codes' = With(codes, last'.authCode,
                    [code |-> last'.authCode, clientId |-> last'.clientId,
                     userId |-> UserTable[last'.email].id,
                     codeChallenge |-> last'.codeChallenge,
                     redirectUri |-> last'.redirectUri,
                     expiresAt |-> now + CodeTtl, scopes |-> last'.scopes])
       /\ LoginReturns /\ ~last'.success => codes' = codes
       /\ DOMAIN codes' \ DOMAIN codes # {} => LoginReturns /\ last'.success]_vars

C29_Witness ==
    /\ last.op = "handleLogin" /\ last.step = "handleLogin"
    /\ last.success
    /\ last.authCode \in DOMAIN codes
    /\ codes[last.authCode].userId = UserTable[last.email].id

\* the submission names a seeded user, by id or by email, and carries the
\* password that verifies against that user's hash
Credentialed(body) ==
    \E e \in DOMAIN UserTable :
        /\ body.user_id \in {e, ToString(UserTable[e].id)}
        /\ BcryptCompare(body.password, UserTable[e].password)

\* C30: a login submission with valid credentials and the required
\* parameters is answered by a redirect to the submitted redirect_uri
\* carrying the new code and the state as submitted; a failed login is
\* answered with HTTP 400 and no code.
C30_LoginRedirectsWithCodeAndState ==
    (last.op = "POST /auth/login")
        => IF /\ Credentialed(last.body)
              /\ Truthy(last.body.code_challenge)
              /\ ValidUrl(last.body.redirect_uri)
           THEN /\ last.status = 302
                /\ last.location.uri = last.body.redirect_uri
                /\ last.location.code \in DOMAIN codes
                /\ last.location.state = last.body.state
           ELSE last.status = 400 /\ last.location = NoLocation

\* C32: when challengeForAuthorizationCode, exchangeAuthorizationCode,
\* exchangeRefreshToken or verifyAccessToken finds the record it looked up
\* expired, the failure is reported only after the delete: at the report the
\* record is not in its table, and no call reports a failure at the lookup
\* for a record of the caller that is expired.
C32_ExpiredRecordDeleted ==
    /\ last.step \in {"chDeleteExpired", "xcDeleteExpired"}
        => last.phase = "threw" /\ last.tok \notin DOMAIN codes
    /\ last.step = "rfDeleteExpired"
        => last.phase = "threw" /\ last.tok \notin DOMAIN refreshTokens
    /\ last.step = "gateDeleteExpired"
        => last.status = 401 /\ last.tok \notin DOMAIN accessTokens
    /\ (/\ last.step \in {"chFind", "xcFind"} /\ last.phase = "threw"
        /\ last.tok \in DOMAIN codes /\ codes[last.tok].clientId = last.client)
        => ~Expired(codes[last.tok], now)
    /\ (/\ last.step = "rfFind" /\ last.phase = "threw"
        /\ last.tok \in DOMAIN refreshTokens)
        => refreshTokens[last.tok].clientId # last.client

C32_Witness ==
    /\ last.step = "rfDeleteExpired"
    /\ last.error = "Refresh token expired"
    /\ last.tok \in IssuedOf("refresh")
    /\ last.tok \notin DOMAIN refreshTokens

\* an exchangeAuthorizationCode call at its lookup, for a stored code of the
\* calling client that has not expired and whose redirect check passes
Redeemable(e) ==
    /\ e.op = "exchangeAuthorizationCode" /\ e.step = "xcFind"
    /\ e.tok \in DOMAIN codes
    /\ codes[e.tok].clientId = e.client
    /\ ~Expired(codes[e.tok], now)
    /\ ~(Truthy(e.redirect) /\ e.redirect # codes[e.tok].redirectUri)

\* C33: an exchangeAuthorizationCode call without a code_verifier (absent or
\* empty) makes no challenge comparison: when the client, expiry and redirect
\* checks pass it passes to the issuing of the token pair, although the code
\* is stored with a challenge.
C33_NoVerifierNoPkceCheck ==
    (Redeemable(last) /\ last.verifier \in {Undefined, EmptyStr})
        => last.phase = "passed" /\ last.error = ""

C33_Witness ==
    /\ Redeemable(last)
    /\ last.verifier = EmptyStr
    /\ codes[last.tok].codeChallenge \in LoginChallenges
    /\ last.phase = "passed"

\* an exchangeAuthorizationCode call has just thrown at its checks
RedemptionRefused ==
    /\ last' # last
    /\ last'.op = "exchangeAuthorizationCode" /\ last'.step = "xcFind"
    /\ last'.phase = "threw"

\* C34: an exchangeAuthorizationCode call that fails because the caller is
\* another client, the redirect_uri mismatches or the verifier does not match
\* leaves the code table (and the token tables) unchanged; and an exchange of
\* a stored, unexpired code with the right client, redirect_uri and verifier
\* passes its checks, whatever failed before.
C34_FailedRedemptionKeepsCode ==
    [][/\ RedemptionRefused
          => /\ codes' = codes
             /\ accessTokens' = accessTokens
             /\ refreshTokens' = refreshTokens
       /\ (/\ last' # last
           /\ Redeemable(last')
           /\ ~(Truthy(last'.verifier)
                /\ Sha256B64Url(last'.verifier) # codes[last'.tok].codeChallenge))
          => last'.phase = "passed"]_vars

C34_Witness ==
    /\ last.op = "exchangeAuthorizationCode" /\ last.step = "xcFind"
    /\ last.phase = "threw"
    /\ last.error \in {"Invalid redirect URI", "Invalid code verifier"}
    /\ last.tok \in DOMAIN codes
    /\ ~Expired(codes[last.tok], now)

\* the elements of a list
Range(list) == {list[i] : i \in DOMAIN list}

\* C35: every token stored by exchangeRefreshToken carries only scopes of the
\* refresh token presented to the call.
C35_RefreshNeverWidens ==
    \A m \in issued, f \in issued :
        (m.grant = "refresh" /\ f.kind = "refresh" /\ f.tok = m.from)
            => Range(m.scopes) \subseteq Range(f.scopes)

\* C31: a tool invocation made through a session's transport runs the data
\* accessor of the user the session's server was created for, whichever other
\* sessions are open: the user of the session's entry in the table and of the
\* token the session's connection was opened with.
C31_ToolsScopedToSessionUser ==
    /\ (last.op = "POST /message" /\ last.step = "msgHandled")
        => /\ last.transport.sessionId = last.sessionId
           /\ last.db = GetPrisma(last.transport.server.userId)
           /\ last.sessionId \in DOMAIN activeConnections
                => last.db.user.id = activeConnections[last.sessionId].server.userId
           /\ \A q \in Conns :
                (/\ conns[q].route = "GET /sse" /\ conns[q].sessionId = last.sessionId
                 /\ conns[q].tok \in DOMAIN accessTokens)
                    => last.db.user.id = accessTokens[conns[q].tok].userId
    /\ \A s \in DOMAIN activeConnections : activeConnections[s].sessionId = s

C31_Witness ==
    /\ last.op = "POST /message" /\ last.step = "msgHandled"
    /\ last.db.user.id = 1
    /\ \E s \in DOMAIN activeConnections :
        /\ s # last.sessionId
        /\ activeConnections[s].server.userId = 2
        /\ s > last.sessionId

\* C36: a message is handed to a session's transport only when the token
\* presented with it belongs to the user the session was created for.
C36_MessageTokenOwnsSession ==
    (/\ last.op = "POST /message" /\ last.step = "routeVerify"
     /\ last.phase = "passed" /\ last.routed)
        => last.auth.userId = last.transport.server.userId

\* C38: a session is created only by a request whose token was verified, and
\* the user it is bound to is the user id stored with that token, whatever
\* X-USER-ID header or query parameter the request carries.
C38_SessionUserFromToken ==
    [][activeConnections' # activeConnections /\ nextSession' # nextSession
        => /\ last'.op = "GET /sse" /\ last'.step = "routeVerify"
           /\ last'.tok \in DOMAIN accessTokens
           /\ ~Expired(accessTokens[last'.tok], now)
           /\ last'.auth.userId = accessTokens[last'.tok].userId
           /\ DOMAIN activeConnections' = DOMAIN activeConnections \cup {nextSession}
           /\ activeConnections'[nextSession].server.userId
                = accessTokens[last'.tok].userId]_vars

C38_Witness ==
    /\ last.op = "GET /sse" /\ last.step = "routeVerify" /\ last.phase = "passed"
    /\ last.userIdHeader = "1"
    /\ last.auth.userId = 2
    /\ last.transport.server.userId = 2
    /\ last.transport.sessionId \in DOMAIN activeConnections

\* C39: once the first load has ended, by success or by failure, the store
\* is initialized and stays so, a later initialize call reads nothing from
\* the table, and after a failed load a client that is only in the table is
\* not found.
C39_LoadedAtMostOnce ==
    [][/\ load.pc \in {"done", "failed"} => initialized /\ load' = load
       /\ initialized => initialized'
       /\ (last' # last /\ last'.op = "initialize") => ~last'.read
       /\ (/\ last' # last /\ last'.op = "getClient"
           /\ load.pc = "failed"
           /\ last'.clientId \notin DOMAIN registered)
          => last'.result = NotFound]_vars

C39_Witness ==
    /\ last.op = "initialize"
    /\ load.pc = "failed"
    /\ initialized
    /\ "c1" \in DOMAIN oAuthClient
    /\ "c1" \notin DOMAIN clients

\* C37: every authorization code in the store references a client_id that
\* is registered and a redirect_uri that is one of that client's registered
\* redirect URIs.
C37_CodeReferencesRegisteredClient ==
    \A c \in DOMAIN codes :
        /\ codes[c].clientId \in DOMAIN oAuthClient
        /\ codes[c].redirectUri \in Range(oAuthClient[codes[c].clientId].redirect_uris)

Spec == Init /\ [][Next]_vars
SessionSpec == SessionInit /\ [][SessionNext]_vars
ClientSpec == ClientInit /\ [][ClientNext]_vars
LoginSpec == Init /\ [][LoginNext]_vars
IdentitySpec == IdentityInit /\ [][IdentityNext]_vars
RegistrySpec == RegistryInit /\ [][RegistryNext]_vars
====
